---------------------------- MODULE Spec2Model ----------------------------
(***************************************************************************)
(* A model of the query-to-answer pipeline and of the evaluation harness   *)
(* of rag-fin-proj:                                                        *)
(*   - QueryParser.parse            (backend/app/services/query_parser.py) *)
(*   - EvalJudge.judge_answer       (backend/app/services/eval_judge.py)   *)
(*   - run_evaluation               (scripts/run_eval.py)                  *)
(*   - RAGService.answer            (backend/app/services/rag_service.py)  *)
(*                                                                         *)
(* Text is a sequence of fragments ("atoms").  The atoms form a uniquely   *)
(* decodable alphabet (no atom is a concatenation of other atoms), so two  *)
(* texts are the same Python string exactly when they are the same         *)
(* sequence.  The braces, the double quote and the other JSON punctuation  *)
(* are atoms of their own, which is what the regular expression and the    *)
(* JSON decoder of parse() look at.  Python values decoded from JSON are   *)
(* tagged records.  Money is counted in whole units (a Nat), so that sums  *)
(* are exact.                                                              *)
(***************************************************************************)
EXTENDS Integers, Sequences, FiniteSets, TLC

VARIABLES
    \* ---- QueryParser.parse
    pstate,      \* "idle" | "returned" | "raised": how the last parse() ended
    origin,      \* how the provider reply of the last parse() was built
    response,    \* the provider reply text of the last parse()
    fields,      \* tickers, period, needs_clarification, clarification_message
                 \* as read from the decoded object (<<>> when none was decoded)
    parsed,      \* the 4-tuple the last parse() returned
    pexc,        \* the exception raised inside the try block ("" when none)
    now,         \* the wall clock read by resolve_relative_period
    \* ---- EvalJudge.judge_answer
    jstate,      \* "idle" | "returned" | "raised": how the last judge_answer() ended
    jchat,       \* what the judge's client.chat() gives: a ChatResult or an error
    judgment,    \* the JudgmentResult returned
    jcalls,      \* the client.chat() calls the last judge_answer() made
    \* ---- run_evaluation
    questions,   \* the number of questions (question q is the integer q)
    models,      \* the list of model names
    epc,         \* "loop" | "done" | "raised"
    qi, mi,      \* the pair being evaluated: questions[qi], models[mi]
    results,     \* results.results: the ModelResult rows
    model_summaries,  \* model name -> ModelSummary
    summaries,   \* results.summaries
    log,         \* per pair handled: what happened and the rows it appended
    before,      \* model_summaries as they were when the last pair was started
    \* ---- RAGService.answer
    astate,      \* "idle" | "returned" | "raised": how the last answer() ended
    request,     \* the ChatRequest
    retrieved,   \* what the retriever gives: the scored chunks, or an error
    ranked,      \* the ranked list of the last answer()
    completion,  \* what the multi-provider API gives for a completion request
    direct,      \* what the default client's chat() gives
    aresult,     \* the ChatResult openrouter.chat() returned, if it was called
    aresponse,   \* the ChatResponse returned
    aexc,        \* the exception answer() raised ("" when none)
    acalls,      \* the outgoing calls of the last answer(), in order
    \* ---- main() of scripts/run_eval.py
    cpc,         \* "off" | "models" | "validate" | "load" | "judge" | "run" | "done" | "exited"
    cargs,       \* the text of --models
    cmodels,     \* the list of model names
    cvi,         \* the index in cmodels of the name validated next
    cresolved,   \* the get_model_id() calls made so far: the name and the outcome
    cevents,     \* what main() has done after the validation, in order
    cstatus,     \* the exit status (0 while none has been set)
    \* ---- reranking, on its own
    kstate,      \* "off" | "idle" | "done"
    klist,       \* a list of scored chunks
    konce,       \* the list reranked
    ktwice,      \* the reranked list reranked again
    \* ---- handle_question of the Streamlit front end
    hstate,      \* "off" | "idle" | "sent": whether the /chat request has been sent
    hparsed,     \* what _parse_query returned for the question
    active_tickers,  \* st.session_state.active_tickers
    active_period,   \* st.session_state.active_period
    hbefore,     \* the two session values as they were when the question came
    payload,     \* the body of the /chat request
    htoast,      \* whether the clarification message was shown
    \* ---- the client factories, over concurrent /chat requests
    dpc,         \* request -> "off" | "start" | "openai" | "construct" | "answer" | "done"
    dmodel,      \* request -> whether its ChatRequest names a model
    openai_cache,\* the lru_cache of get_openai_client: 0 when empty, else the instance
    made,        \* how many instances of each kind have been constructed
    held         \* request -> the instances it was given (0: none)

pvars == <<pstate, origin, response, fields, parsed, pexc, now>>
jvars == <<jstate, jchat, judgment, jcalls>>
evars == <<questions, models, epc, qi, mi, results, model_summaries, summaries, log, before>>

avars == <<astate, request, retrieved, ranked, completion, direct, aresult, aresponse, aexc, acalls>>

cvars == <<cpc, cargs, cmodels, cvi, cresolved, cevents, cstatus>>

kvars == <<kstate, klist, konce, ktwice>>

hvars == <<hstate, hparsed, active_tickers, active_period, hbefore, payload, htoast>>

\* The components added after main().
dvars == <<dpc, dmodel, openai_cache, made, held>>

yvars == <<kvars, hvars, dvars>>

\* The components added after the first four.
xvars == <<cvars, yvars>>

vars == <<pvars, jvars, evars, avars, xvars>>

--------------------------------------------------------------------------
(* Bounds *)

\* Longest ticker list the provider reply carries.
MaxTickers == 2

\* Longest judge reply, in atoms.
MaxReplyLen == 3

\* Most questions in an evaluation.
MaxQuestions == 2

\* Most chunks retrieval and reranking hand to answer().
MaxChunks == 2
MaxDistance == 2
MaxListLen == 3
MaxRequests == 2

\* Most comma-separated items in --models.
MaxCliModels == 2

--------------------------------------------------------------------------
(* Text atoms *)

LB == "{"
RB == "}"
DQ == "\""
WS == {" ", "\n"}
Digits == {"0", "1", "2", "3", "4", "5", "2025", "2026"}

\* str.upper() on one atom.
UpperAtom(a) ==
    CASE a = "a" -> "A"
      [] a = "b" -> "B"
      [] a = "last" -> "LAST"
      [] a = "correct" -> "CORRECT"
      [] a = "Correct" -> "CORRECT"
      [] a = "incorrect" -> "INCORRECT"
      [] a = "because" -> "BECAUSE"
      [] OTHER -> a

\* str.upper()
Upper(s) == [i \in 1..Len(s) |-> UpperAtom(s[i])]

RECURSIVE LStrip(_)
LStrip(s) == IF s # <<>> /\ Head(s) \in WS THEN LStrip(Tail(s)) ELSE s

RECURSIVE RStrip(_)
RStrip(s) ==
    IF s # <<>> /\ s[Len(s)] \in WS THEN RStrip(SubSeq(s, 1, Len(s) - 1)) ELSE s

\* str.strip()
Strip(s) == RStrip(LStrip(s))

MinOf(S) == CHOOSE x \in S : \A y \in S : x <= y

--------------------------------------------------------------------------
(* Python values decoded from JSON *)

Null == [t |-> "null"]
Bool(x) == [t |-> "bool", b |-> x]
Num(numeral) == [t |-> "num", n |-> numeral]
Str(s) == [t |-> "str", s |-> s]
List(l) == [t |-> "list", l |-> l]
Obj(m) == [t |-> "obj", m |-> m]

\* bool(v): the truth value Python gives a value.
Truthy(v) ==
    CASE v.t = "null" -> FALSE
      [] v.t = "bool" -> v.b
      [] v.t = "num" -> v.n \notin {<<"0">>, <<"-", "0">>}
      [] v.t = "str" -> v.s # <<>>
      [] v.t = "list" -> v.l # <<>>
      [] v.t = "obj" -> v.m # <<>>

--------------------------------------------------------------------------
(* json.loads *)

Fail == [ok |-> FALSE, v |-> Null, i |-> 0]
Ok(v, i) == [ok |-> TRUE, v |-> v, i |-> i]

RECURSIVE SkipWs(_, _)
SkipWs(s, i) == IF i <= Len(s) /\ s[i] \in WS THEN SkipWs(s, i + 1) ELSE i

\* The body of a string literal and the index after its closing quote; a raw
\* newline inside a string is rejected.
StringBody(body, next) ==
    IF \E k \in 1..Len(body) : body[k] = "\n" THEN Fail ELSE Ok(Str(body), next)

StringUpTo(s, i, closing) ==
    IF closing = {} THEN Fail
    ELSE StringBody(SubSeq(s, i + 1, MinOf(closing) - 1), MinOf(closing) + 1)

\* A string literal starting at the quote s[i]: up to the next quote (the
\* alphabet has no escapes).
ScanString(s, i) == StringUpTo(s, i, {j \in (i + 1)..Len(s) : s[j] = DQ})

RECURSIVE DigitRun(_, _)
DigitRun(s, i) == IF i <= Len(s) /\ s[i] \in Digits THEN DigitRun(s, i + 1) ELSE i

\* The digits of a number start at s[d]: "0" alone, or a run of digit atoms.
NumberFrom(s, i, d) ==
    IF d > Len(s) \/ s[d] \notin Digits THEN Fail
    ELSE IF s[d] = "0" THEN Ok(Num(SubSeq(s, i, d)), d + 1)
    ELSE Ok(Num(SubSeq(s, i, DigitRun(s, d) - 1)), DigitRun(s, d))

\* A number starting at s[i], with an optional minus.
ScanNumber(s, i) == NumberFrom(s, i, IF s[i] = "-" THEN i + 1 ELSE i)

RECURSIVE ParseValue(_, _)
RECURSIVE ParseItems(_, _, _)
RECURSIVE ParseMembers(_, _, _)

\* After an item of a list: a comma and the next item, or the closing bracket.
ItemEnd(s, acc, j) ==
    IF j > Len(s) THEN Fail
    ELSE IF s[j] = "," THEN ParseItems(s, SkipWs(s, j + 1), acc)
    ELSE IF s[j] = "]" THEN Ok(List(acc), j + 1)
    ELSE Fail

AfterItem(s, acc, r) ==
    IF ~r.ok THEN Fail ELSE ItemEnd(s, Append(acc, r.v), SkipWs(s, r.i))

\* The items of a list, s[i] being the first atom of an item.
ParseItems(s, i, acc) == AfterItem(s, acc, ParseValue(s, i))

\* After a member of an object: a comma and the next member, or the closing
\* brace.
MemberEnd(s, acc, j) ==
    IF j > Len(s) THEN Fail
    ELSE IF s[j] = "," THEN ParseMembers(s, SkipWs(s, j + 1), acc)
    ELSE IF s[j] = RB THEN Ok(Obj(acc), j + 1)
    ELSE Fail

AfterMember(s, acc, key, r) ==
    IF ~r.ok THEN Fail
    ELSE MemberEnd(s, Append(acc, [k |-> key, v |-> r.v]), SkipWs(s, r.i))

AfterColon(s, acc, key, c) ==
    IF c > Len(s) \/ s[c] # ":" THEN Fail
    ELSE AfterMember(s, acc, key, ParseValue(s, SkipWs(s, c + 1)))

AfterKey(s, acc, k) ==
    IF ~k.ok THEN Fail ELSE AfterColon(s, acc, k.v.s, SkipWs(s, k.i))

\* The members of an object, s[i] being the quote that opens a key.
ParseMembers(s, i, acc) ==
    IF i > Len(s) \/ s[i] # DQ THEN Fail ELSE AfterKey(s, acc, ScanString(s, i))

\* An object whose first atom after the brace is s[j].
ObjectFrom(s, j) ==
    IF j <= Len(s) /\ s[j] = RB THEN Ok(Obj(<<>>), j + 1) ELSE ParseMembers(s, j, <<>>)

\* A list whose first atom after the bracket is s[j].
ListFrom(s, j) ==
    IF j <= Len(s) /\ s[j] = "]" THEN Ok(List(<<>>), j + 1) ELSE ParseItems(s, j, <<>>)

\* The JSON value that starts at s[i].
ParseValue(s, i) ==
    IF i > Len(s) THEN Fail
    ELSE CASE s[i] = DQ -> ScanString(s, i)
           [] s[i] = LB -> ObjectFrom(s, SkipWs(s, i + 1))
           [] s[i] = "[" -> ListFrom(s, SkipWs(s, i + 1))
           [] s[i] = "null" -> Ok(Null, i + 1)
           [] s[i] = "true" -> Ok(Bool(TRUE), i + 1)
           [] s[i] = "false" -> Ok(Bool(FALSE), i + 1)
           [] s[i] \in Digits \cup {"-"} -> ScanNumber(s, i)
           [] OTHER -> Fail

\* The whole text must be one value, whitespace aside.
WholeText(s, r) == IF r.ok /\ SkipWs(s, r.i) = Len(s) + 1 THEN r ELSE Fail

\* json.loads(s): the value, or ok = FALSE for a JSONDecodeError.
json_loads(s) == WholeText(s, ParseValue(s, SkipWs(s, 1)))

\* dict.get(key, default): the last member with that key wins.
Get(d, key, default) ==
    LET at == {i \in 1..Len(d.m) : d.m[i].k = <<key>>}
    IN  IF at = {} THEN default
        ELSE d.m[CHOOSE i \in at : \A j \in at : j <= i].v

--------------------------------------------------------------------------
(* re.search(r'\{[^{}]*\}', response, re.DOTALL) *)

\* The leftmost span that opens with a brace, closes with a brace and has no
\* brace in between.
re_search(s) ==
    LET closes(i) == {j \in (i + 1)..Len(s) : s[j] = RB}
        opens == {i \in 1..Len(s) :
                    /\ s[i] = LB
                    /\ \E j \in closes(i) : \A k \in (i + 1)..(j - 1) : s[k] \notin {LB, RB}}
    IN  IF opens = {} THEN [found |-> FALSE, group |-> <<>>]
        ELSE LET i == MinOf(opens)
             IN  [found |-> TRUE, group |-> SubSeq(s, i, MinOf(closes(i)))]

--------------------------------------------------------------------------
(* QueryParser *)

FALLBACK_MESSAGE ==
    <<"I couldn't understand your query. Please specify the company ticker and time period.">>

SENTINEL == <<"CURRENT_QUARTER">>

Months == 1..12
Years == {2025, 2026}
Clocks == [month : Months, year : Years]
NoClock == [month |-> 0, year |-> 0]

\* str(n) for the integers the parser formats.
IntStr(n) ==
    CASE n = 0 -> "0" [] n = 1 -> "1" [] n = 2 -> "2" [] n = 3 -> "3" [] n = 4 -> "4"
      [] n = 5 -> "5"
      [] n = 2025 -> "2025" [] n = 2026 -> "2026"

\* A quarter computed as month // 3 + 1.
get_current_quarter_floor(clock) ==
    LET quarter == (clock.month \div 3) + 1
    IN  <<"Q", IntStr(quarter), "-", IntStr(clock.year)>>

\* _get_current_quarter(), given what datetime.now() returns.
get_current_quarter(clock) ==
    LET quarter == ((clock.month - 1) \div 3) + 1
    IN  <<"Q", IntStr(quarter), "-", IntStr(clock.year)>>

\* _resolve_relative_period(period)
resolve_relative_period(period, clock) ==
    IF period = Str(SENTINEL) THEN Str(get_current_quarter(clock)) ELSE period

Returned(tuple) == [how |-> "returned", ret |-> tuple, exc |-> ""]
Raised(exc) == [how |-> "raised", ret |-> <<>>, exc |-> exc]

\* What the except clause of parse() returns.
FallbackTuple == <<Null, Null, Bool(TRUE), Str(FALLBACK_MESSAGE)>>

\* The except clause of parse(), entered with a caught exception.
Fallback(exc) == [how |-> "returned", ret |-> FallbackTuple, exc |-> exc]

\* [t.upper() for t in tickers], run when tickers is truthy.  A list or a
\* string is iterated (a string character by character: the atoms of a
\* ticker are single characters); a number or a boolean is not iterable
\* (TypeError); an item that is no string has no upper() (AttributeError).
UpperAll(tickers) ==
    CASE tickers.t = "list" ->
            IF \A i \in 1..Len(tickers.l) : tickers.l[i].t = "str"
            THEN [exc |-> "", v |-> List([i \in 1..Len(tickers.l) |-> Str(Upper(tickers.l[i].s))])]
            ELSE [exc |-> "AttributeError", v |-> Null]
      [] tickers.t = "str" ->
            [exc |-> "", v |-> List([i \in 1..Len(tickers.s) |-> Str(<<UpperAtom(tickers.s[i])>>)])]
      [] tickers.t = "obj" ->
            [exc |-> "", v |-> List([i \in 1..Len(tickers.m) |-> Str(Upper(tickers.m[i].k))])]
      [] OTHER -> [exc |-> "TypeError", v |-> Null]

\* Lines 95-97: normalize tickers to uppercase.
NormalizeTickers(tickers) ==
    IF Truthy(tickers) THEN UpperAll(tickers) ELSE [exc |-> "", v |-> tickers]

\* The exceptions the except clause of parse() catches.
Caught == {"JSONDecodeError", "KeyError", "TypeError"}

\* Lines 84-86: the text handed to json.loads.
ExtractJson(text) ==
    IF re_search(text).found THEN re_search(text).group ELSE text

\* Lines 90-93: the four fields of the decoded value; a decoded value that is
\* no object has no get() (AttributeError).
FieldsOf(data) ==
    IF ~data.ok THEN [exc |-> "JSONDecodeError", f |-> <<>>]
    ELSE IF data.v.t # "obj" THEN [exc |-> "AttributeError", f |-> <<>>]
    ELSE [exc |-> "",
          f |-> << Get(data.v, "tickers", Null),
                   Get(data.v, "period", Null),
                   Get(data.v, "needs_clarification", Bool(FALSE)),
                   Get(data.v, "clarification_message", Null) >>]

\* Lines 88-93: decode and read the four fields.
ReadFields(text) == FieldsOf(json_loads(text))

\* Lines 96-97 after the fields were read: f as read, tickers normalized.
WithTickers(f, up) == [exc |-> up.exc, f |-> f, tickers |-> up.v]

Normalized(r) ==
    IF r.exc # "" THEN [exc |-> r.exc, f |-> r.f, tickers |-> Null]
    ELSE WithTickers(r.f, NormalizeTickers(r.f[1]))

\* Lines 84-97: the try block of parse() after the provider call, up to the
\* point where the period is resolved.
Try(text) == Normalized(ReadFields(ExtractJson(text)))

\* Lines 99-111: resolve the period and return, or the except clause.
Finish(e, clock) ==
    IF e.exc \in Caught THEN Fallback(e.exc)
    ELSE IF e.exc # "" THEN Raised(e.exc)
    ELSE Returned(<<e.tickers, resolve_relative_period(e.f[2], clock), e.f[3], e.f[4]>>)

\* QueryParser.parse, given the provider reply and the clock.
parse(text, clock) == Finish(Try(text), clock)

\* Whether parse() reads the clock to resolve the period of this reply.
ReadsPeriodClock(e) == e.exc = "" /\ e.f[2] = Str(SENTINEL)

--------------------------------------------------------------------------
(* Provider replies *)

\* The separator json.dumps writes between items.
Sep == <<",", " ">>

RECURSIVE Render(_)
RECURSIVE RenderItems(_)
RECURSIVE RenderMembers(_)

RenderItems(l) ==
    IF l = <<>> THEN <<>>
    ELSE IF Len(l) = 1 THEN Render(l[1])
    ELSE Render(l[1]) \o Sep \o RenderItems(Tail(l))

RenderMembers(m) ==
    IF m = <<>> THEN <<>>
    ELSE LET one == <<DQ>> \o m[1].k \o <<DQ, ":", " ">> \o Render(m[1].v)
         IN  IF Len(m) = 1 THEN one ELSE one \o Sep \o RenderMembers(Tail(m))

\* The JSON text of a value.
Render(v) ==
    CASE v.t = "null" -> <<"null">>
      [] v.t = "bool" -> IF v.b THEN <<"true">> ELSE <<"false">>
      [] v.t = "num" -> v.n
      [] v.t = "str" -> <<DQ>> \o v.s \o <<DQ>>
      [] v.t = "list" -> <<"[">> \o RenderItems(v.l) \o <<"]">>
      [] v.t = "obj" -> <<LB>> \o RenderMembers(v.m) \o <<RB>>

\* A key the reply leaves out.
Absent == [t |-> "absent"]

Member(key, v) == IF v = Absent THEN <<>> ELSE <<[k |-> <<key>>, v |-> v]>>

\* The extraction object with the given fields.
Extraction(tk, pd, nc, cm) ==
    Obj(Member("tickers", tk) \o Member("period", pd)
        \o Member("needs_clarification", nc) \o Member("clarification_message", cm))

TickerStrs == {Str(<<"a", "b">>), Str(<<"B">>)}

TickerLists == UNION {[1..n -> TickerStrs] : n \in 0..MaxTickers}

Five == Num(<<"5">>)

TickerVals ==
    {Absent, Null, Five, Num(<<"0">>), Bool(TRUE), Str(<<"a", "b">>),
     List(<<Five>>), List(<<Str(<<"a", RB, "b">>)>>)}
    \cup {List(l) : l \in TickerLists}

PeriodVals ==
    {Absent, Null, Five, Str(SENTINEL), Str(<<"Q", "3", "-", "2025">>),
     Str(<<"Q", "3", " ", "2025">>), Str(<<"last">>)}

ClarifyVals == {Absent, Bool(FALSE), Bool(TRUE)}

MessageVals == {Absent, Null, Str(<<"a">>), Str(<<LB, RB>>)}

Plain(kind, text) ==
    [kind |-> kind, tk |-> Absent, pd |-> Absent, nc |-> Absent, cm |-> Absent, text |-> text]

\* A reply that is exactly one extraction object.
ObjectReplies ==
    {[kind |-> "object", tk |-> tk, pd |-> pd, nc |-> nc, cm |-> cm,
      text |-> Render(Extraction(tk, pd, nc, cm))] :
        tk \in TickerVals, pd \in PeriodVals, nc \in ClarifyVals, cm \in MessageVals}

\* Replies that are prose, not JSON.
NonJsonReplies ==
    {Plain("nonjson", t) :
        t \in {<<>>, <<"Sure">>, <<"Sure", LB>>, <<RB, "Sure", LB>>,
               <<"Sure", LB, "a", RB>>, <<"Sure", LB, RB>>}}

\* Replies that are a JSON value other than an object.
ValueReplies ==
    {Plain("value", Render(v)) :
        v \in {Null, Bool(TRUE), Five, Str(<<"a", "b">>), List(<<Five, Five>>), List(<<>>)}}

TruncBase ==
    {Extraction(List(<<Str(<<"a", "b">>)>>), Str(<<"Q", "3", "-", "2025">>), Bool(FALSE), Null),
     Extraction(List(<<Str(<<"a", "b">>)>>), Null, Bool(TRUE), Str(<<LB, RB>>))}

\* Replies cut short: the proper prefixes of an extraction object.
TruncatedReplies ==
    UNION {{Plain("truncated", SubSeq(Render(j), 1, n)) : n \in 1..(Len(Render(j)) - 1)} :
                j \in TruncBase}

\* The objects that are wrapped: a full extraction, one whose message holds
\* a pair of braces, and the empty object.
WrapBase ==
    {Extraction(List(<<Str(<<"a", "b">>)>>), Str(<<"Q", "3", "-", "2025">>), Bool(FALSE), Null),
     Extraction(Null, Str(SENTINEL), Bool(TRUE), Str(<<LB, RB>>)),
     Obj(<<>>)}

\* Prose before the object: none, a word, a code fence (FENCE is the atom of
\* the three backquotes), stray braces, and text holding a brace-delimited
\* group of its own.
Prefixes ==
    {<<>>, <<"Sure">>, <<"FENCE", "json", "\n">>, <<"Sure", LB>>, <<RB, "Sure">>,
     <<"Sure", LB, "a", RB, " ">>, <<LB, RB>>}

\* Prose after the object.
Suffixes == {<<>>, <<"\n", "FENCE">>, <<" ", "Sure", RB>>, <<LB, "a", RB>>, <<LB>>}

\* Replies that are an object inside prose.
WrappedReplies ==
    {[kind |-> "wrapped", tk |-> Absent, pd |-> Absent, nc |-> Absent, cm |-> Absent,
      text |-> pre \o Render(j) \o post, inner |-> Render(j), prefix |-> pre] :
        j \in WrapBase, pre \in Prefixes, post \in Suffixes}

Replies ==
    ObjectReplies \cup NonJsonReplies \cup ValueReplies \cup TruncatedReplies
        \cup WrappedReplies

--------------------------------------------------------------------------
(* EvalJudge *)

\* A ChatResult of OpenRouterClient.chat.
ChatResult(answer, input_tokens, output_tokens, cost) ==
    [kind |-> "result", answer |-> answer, input_tokens |-> input_tokens,
     output_tokens |-> output_tokens, cost |-> cost]

\* client.chat() raising (timeout, rate limit, transport error).
ChatError == [kind |-> "error"]

\* A verdict that looks for the word CORRECT anywhere in the reply.
VerdictContains(answer) == \E i \in 1..Len(answer) : UpperAtom(answer[i]) = "CORRECT"

\* Lines 94-95: is_correct = (result.answer.strip().upper() == "CORRECT")
Verdict(answer) == Upper(Strip(answer)) = <<"CORRECT">>

\* EvalJudge.judge_answer, given the ChatResult of its one client call.
judge_answer(result) ==
    [is_correct |-> Verdict(result.answer),
     input_tokens |-> result.input_tokens,
     output_tokens |-> result.output_tokens,
     cost |-> result.cost]

NoJudgment == [is_correct |-> FALSE, input_tokens |-> 0, output_tokens |-> 0, cost |-> 0]

JudgeAtoms == {"CORRECT", "correct", "Correct", "INCORRECT", "incorrect",
               " ", "\n", ".", "because"}

JudgeTexts == UNION {[1..n -> JudgeAtoms] : n \in 0..MaxReplyLen}

JudgeChats ==
    {ChatError} \cup {ChatResult(a, u[1], u[2], u[3]) :
                        a \in JudgeTexts, u \in {<<0, 0, 0>>, <<7, 1, 3>>}}

--------------------------------------------------------------------------
(* run_evaluation *)

IntV(n) == [t |-> "int", n |-> n]

\* model_summaries[model] as line 141 builds it; accuracy is a fraction.
ModelSummary(model) ==
    [model |-> model, total_questions |-> 0, correct |-> 0,
     accuracy |-> [num |-> 0, den |-> 1],
     total_input_tokens |-> 0, total_output_tokens |-> 0, total_cost |-> 0,
     judge_input_tokens |-> 0, judge_output_tokens |-> 0, judge_cost |-> 0]

\* A ModelResult; ji, jo, jc are its judge_input_tokens, judge_output_tokens
\* and judge_cost.
ModelResult(model, q, actual_answer, is_correct, input_tokens, output_tokens, cost, ji, jo, jc) ==
    [model |-> model, question |-> q, expected_answer |-> q,
     actual_answer |-> actual_answer, is_correct |-> is_correct,
     input_tokens |-> input_tokens, output_tokens |-> output_tokens, cost |-> cost,
     judge_input_tokens |-> ji, judge_output_tokens |-> jo, judge_cost |-> jc]

\* A failed row that still bills one input token.
FailedResultBilled(model, q, e) ==
    ModelResult(model, q, <<"ERROR: ", e>>, FALSE, IntV(1), IntV(0), IntV(0), 0, 0, 0)

\* Lines 202-211: the row of a failed pair.
FailedResult(model, q, e) ==
    ModelResult(model, q, <<"ERROR: ", e>>, FALSE, IntV(0), IntV(0), IntV(0), 0, 0, 0)

\* dict.get(key, default) on a JSON body field that may be left out.
GetOr(v, default) == IF v = Absent THEN default ELSE v

\* Line 159: response.get("usage", {}) or {}
EmptyUsage == [input_tokens |-> Absent, output_tokens |-> Absent, cost |-> Absent]

UsageOf(body) ==
    IF body.usage = Absent \/ body.usage = Null THEN EmptyUsage ELSE body.usage

\* An update that writes the count of a summary read before any pair.
UpdateSummaryStale(s, j, input_tokens, output_tokens, cost) ==
    [exc |-> "", s |-> [s EXCEPT !.total_questions = 1]]

\* Lines 187-196: the summary updates in order; adding a value that is no
\* number raises TypeError, the updates made before it staying.
UpdateSummary(s, j, input_tokens, output_tokens, cost) ==
    LET s1 == [s EXCEPT !.total_questions = @ + 1]
        s2 == IF j.is_correct THEN [s1 EXCEPT !.correct = @ + 1] ELSE s1
    IN  IF input_tokens.t # "int" THEN [exc |-> "TypeError", s |-> s2]
        ELSE LET s3 == [s2 EXCEPT !.total_input_tokens = @ + input_tokens.n]
             IN  IF output_tokens.t # "int" THEN [exc |-> "TypeError", s |-> s3]
                 ELSE LET s4 == [s3 EXCEPT !.total_output_tokens = @ + output_tokens.n]
                      IN  IF cost.t # "int" THEN [exc |-> "TypeError", s |-> s4]
                          ELSE [exc |-> "",
                                s |-> [s4 EXCEPT !.total_cost = @ + cost.n,
                                                 !.judge_input_tokens = @ + j.input_tokens,
                                                 !.judge_output_tokens = @ + j.output_tokens,
                                                 !.judge_cost = @ + j.cost]]

\* An except clause that swallows the error and records nothing.
HandleErrorSilent(rows, sums, model, q, e) ==
    [rows |-> rows, sums |-> sums]

\* Lines 198-213: the except clause: one failed row, total_questions + 1.
HandleError(rows, sums, model, q, e) ==
    [rows |-> Append(rows, FailedResult(model, q, e)),
     sums |-> [sums EXCEPT ![model].total_questions = @ + 1]]

\* A judge call that is not given the answer.
JudgeCallBlank(q, api) ==
    [question |-> q, expected_answer |-> q, actual_answer |-> Str(<<>>)]

\* Lines 157, 164-168: the judge is called with the question, the expected
\* answer and response.get("answer", "").
JudgeCall(q, api) ==
    [question |-> q, expected_answer |-> q, actual_answer |-> GetOr(api.answer, Str(<<>>))]

\* The pair was handled without a call of the judge.
Unjudged(r) == [rows |-> r.rows, sums |-> r.sums, judged |-> <<>>]

\* The pair was handled and the judge was called once, with call.
JudgedWith(r, call) == [rows |-> r.rows, sums |-> r.sums, judged |-> <<call>>]

\* Lines 149-213: the body of the loop for one (question, model) pair, given
\* what call_rag_api and the judge's client give.
EvalBody(rows, sums, model, q, api, chat) ==
    IF api.kind = "raise" THEN Unjudged(HandleError(rows, sums, model, q, "HTTPError"))
    ELSE IF api.kind # "dict"
    THEN Unjudged(HandleError(rows, sums, model, q, "AttributeError"))
    ELSE IF chat.kind = "error"
    THEN JudgedWith(HandleError(rows, sums, model, q, "APIError"), JudgeCall(q, api))
    ELSE LET actual_answer == GetOr(api.answer, Str(<<>>))
             usage == UsageOf(api)
             input_tokens == GetOr(usage.input_tokens, IntV(0))
             output_tokens == GetOr(usage.output_tokens, IntV(0))
             cost == GetOr(usage.cost, IntV(0))
             j == judge_answer(chat)
             result == ModelResult(model, q, actual_answer.s, j.is_correct,
                                   input_tokens, output_tokens, cost,
                                   j.input_tokens, j.output_tokens, j.cost)
             appended == Append(rows, result)
             up == UpdateSummary(sums[model], j, input_tokens, output_tokens, cost)
             updated == [sums EXCEPT ![model] = up.s]
         IN  JudgedWith(IF up.exc # "" THEN HandleError(appended, updated, model, q, up.exc)
                        ELSE [rows |-> appended, sums |-> updated],
                        JudgeCall(q, api))

\* a / b as Python computes it: a fraction, or den = 0 for ZeroDivisionError.
Div(a, b) == [num |-> a, den |-> b]

\* The accuracy computed without looking at total_questions.
AccuracyUnguarded(s) == Div(s.correct, s.total_questions)

\* Lines 219-220: the accuracy of a summary.
Accuracy(s) ==
    IF s.total_questions > 0 THEN Div(s.correct, s.total_questions) ELSE s.accuracy

\* The keys of model_summaries in dict order: first occurrences in models.
KeysInOrder(ms) ==
    LET firsts == {i \in 1..Len(ms) : \A j \in 1..(i - 1) : ms[j] # ms[i]}
        nth(k) == CHOOSE i \in firsts : Cardinality({j \in firsts : j <= i}) = k
    IN  [k \in 1..Cardinality(firsts) |-> ms[nth(k)]]

\* What call_rag_api gives: an exception, or the JSON body of the reply.
ApiRaise == [kind |-> "raise"]
Body(answer, usage) == [kind |-> "dict", answer |-> answer, usage |-> usage]
Usage(i, o, c) == [input_tokens |-> i, output_tokens |-> o, cost |-> c]

NoChat == [kind |-> "none"]
Verdicts(a) == ChatResult(a, 7, 1, 3)

\* What can happen to one pair: the reply of the RAG API and, when the judge
\* is reached, the ChatResult of the judge's client.
Scenarios ==
    { [api |-> ApiRaise, chat |-> NoChat],
      [api |-> Body(Str(<<"ans">>), Usage(IntV(5), IntV(2), IntV(4))), chat |-> Verdicts(<<"CORRECT">>)],
      [api |-> Body(Absent, Absent), chat |-> Verdicts(<<"INCORRECT">>)],
      [api |-> Body(Str(<<"ans">>), Null), chat |-> Verdicts(<<"INCORRECT">>)],
      [api |-> Body(Str(<<"other">>), EmptyUsage), chat |-> Verdicts(<<"INCORRECT">>)],
      [api |-> Body(Str(<<"ans">>), Usage(Null, IntV(2), IntV(4))), chat |-> Verdicts(<<"CORRECT">>)],
      [api |-> Body(Str(<<"ans">>), Usage(IntV(5), IntV(2), IntV(4))), chat |-> ChatError] }

ModelLists == {<<>>, <<"m1">>, <<"m1", "m2">>, <<"m1", "m1">>}

\* The loop of lines 145-146 has pairs left.
InLoop == epc = "loop" /\ qi <= questions /\ models # <<>>

--------------------------------------------------------------------------
(* RAGService.answer *)

\* Two of the aliases of EVAL_MODELS, with the ids they stand for.
EVAL_MODELS ==
    (<<"gpt-4o">> :> <<"openai", "/", "gpt-4o">>)
    @@ (<<"claude-opus">> :> <<"anthropic", "/", "claude-opus-4-20250514">>)

\* list(EVAL_MODELS.keys()): the aliases in the order the dict lists them.
get_all_model_names == << <<"claude-opus">>, <<"gpt-4o">> >>

\* The text of the ValueError of get_model_id: the name, then the aliases.
UnknownModel(model_name) == [unknown |-> model_name, available |-> get_all_model_names]

NoMessage == [unknown |-> <<>>, available |-> <<>>]

\* A resolution that reports every name as its own id.
get_model_id_lenient(model_name) ==
    IF model_name \in DOMAIN EVAL_MODELS
    THEN [exc |-> "", id |-> EVAL_MODELS[model_name], msg |-> NoMessage]
    ELSE [exc |-> "", id |-> model_name, msg |-> NoMessage]

\* get_model_id(model_name): the id, or ValueError.
get_model_id(model_name) ==
    IF model_name \in DOMAIN EVAL_MODELS
    THEN [exc |-> "", id |-> EVAL_MODELS[model_name], msg |-> NoMessage]
    ELSE IF \E i \in 1..Len(model_name) : model_name[i] = "/"
    THEN [exc |-> "", id |-> model_name, msg |-> NoMessage]
    ELSE [exc |-> "ValueError", id |-> <<>>, msg |-> UnknownModel(model_name)]

\* The default_model of OpenRouterClient.
DEFAULT_MODEL == <<"openai", "/", "gpt-4o">>

\* MODEL_COSTS_PER_1M_TOKENS for the two ids, in tenths of a dollar per
\* million tokens (2.5 and 10.0 dollars; 15.0 and 75.0 dollars).
MODEL_COSTS_PER_1M_TOKENS ==
    (<<"openai", "/", "gpt-4o">> :> [input |-> 25, output |-> 100])
    @@ (<<"anthropic", "/", "claude-opus-4-20250514">> :> [input |-> 150, output |-> 750])

\* estimate_cost(model_id, input_tokens, output_tokens).  A cost is counted
\* in units of a ten-millionth of a dollar: a token of a model priced at p
\* tenths of a dollar per million tokens costs p units.
estimate_cost(model_id, input_tokens, output_tokens) ==
    IF model_id \in DOMAIN MODEL_COSTS_PER_1M_TOKENS
    THEN input_tokens * MODEL_COSTS_PER_1M_TOKENS[model_id].input
            + output_tokens * MODEL_COSTS_PER_1M_TOKENS[model_id].output
    ELSE 0

\* model_extra of a completion: the fields the client library does not
\* know, by name; cost is the value of the field "cost".
NoExtra == [keys |-> {}, cost |-> 0]

\* response.model_extra is truthy and has the key "cost".
HasCost(api_reply) ==
    /\ api_reply.model_extra # Null
    /\ api_reply.model_extra.keys # {}
    /\ "cost" \in api_reply.model_extra.keys

\* A cost resolution that prefers the table to the provider's cost field.
extract_cost_table_first(api_reply, model_id, input_tokens, output_tokens) ==
    IF model_id \in DOMAIN MODEL_COSTS_PER_1M_TOKENS
    THEN estimate_cost(model_id, input_tokens, output_tokens)
    ELSE IF HasCost(api_reply) THEN api_reply.model_extra.cost
    ELSE 0

\* OpenRouterClient._extract_cost
extract_cost(api_reply, model_id, input_tokens, output_tokens) ==
    IF HasCost(api_reply) THEN api_reply.model_extra.cost
    ELSE estimate_cost(model_id, input_tokens, output_tokens)

\* Lines 79-81: the token counts of the completion.
TokensOf(api_reply) ==
    IF api_reply.usage = Absent
    THEN [prompt_tokens |-> 0, completion_tokens |-> 0, total_tokens |-> 0]
    ELSE api_reply.usage

\* OpenRouterClient.chat lines 68-97, given the completion the API returns.
chat(model, api_reply) ==
    [kind |-> "result",
     answer |-> IF api_reply.content = Null THEN <<>> ELSE api_reply.content.s,
     input_tokens |-> TokensOf(api_reply).prompt_tokens,
     output_tokens |-> TokensOf(api_reply).completion_tokens,
     total_tokens |-> TokensOf(api_reply).total_tokens,
     cost |-> extract_cost(api_reply, IF model # <<>> THEN model ELSE DEFAULT_MODEL,
                           TokensOf(api_reply).prompt_tokens,
                           TokensOf(api_reply).completion_tokens),
     model |-> IF model # <<>> THEN model ELSE DEFAULT_MODEL]

\* ---- the chunks, the retriever, reranking and citations

\* The chunks the vector index holds: two of one company, one of them
\* without a filing type, and one of another company with the text of the first.
Corpus ==
    {[chunk_id |-> 1, text |-> "t1",
      metadata |-> [ticker |-> "AMZN", filing_type |-> "10-Q", period |-> "Q3-2025"]],
     [chunk_id |-> 2, text |-> "t2",
      metadata |-> [ticker |-> "AMZN", period |-> "Q2-2025"]],
     [chunk_id |-> 3, text |-> "t1",
      metadata |-> [ticker |-> "MSFT", filing_type |-> "8-K"]]}

\* The distances the index reports.
Distances == 1..MaxDistance

\* A chunk passes the ticker filter: there is none, or its ticker is listed.
Matches(chunk, tickers) ==
    \/ tickers = Null
    \/ \E i \in 1..Len(tickers.l) : tickers.l[i] = Str(<<chunk.metadata.ticker>>)

\* Retriever.retrieve: it fails, or it returns at most k scored chunks, each
\* passing the ticker filter.
Retrieve(call) ==
    {[kind |-> "error", chunks |-> <<>>]}
    \cup {[kind |-> "ok", chunks |-> L] :
            L \in UNION {[1..n -> {c \in Corpus : Matches(c, call.tickers)} \X Distances] :
                            n \in 0..call.k}}

\* The lists of scored chunks of up to MaxListLen entries.
ScoredLists == UNION {[1..n -> Corpus \X Distances] : n \in 0..MaxListLen}

RECURSIVE InsertByDistance(_, _)
\* cw put into a list sorted by distance, after the entries that are as near.
InsertByDistance(sorted, cw) ==
    IF sorted = <<>> THEN <<cw>>
    ELSE IF cw[2] < Head(sorted)[2] THEN <<cw>> \o sorted
    ELSE <<Head(sorted)>> \o InsertByDistance(Tail(sorted), cw)

RECURSIVE SortByDistance(_)
\* The list, nearest first; entries as near as each other keep their order.
SortByDistance(L) ==
    IF L = <<>> THEN <<>>
    ELSE InsertByDistance(SortByDistance(SubSeq(L, 1, Len(L) - 1)), L[Len(L)])

\* Two entries are duplicates: the same chunk_id, or the same text span.
SameChunk(a, b) == a[1].chunk_id = b[1].chunk_id \/ a[1].text = b[1].text

RECURSIVE Collapse(_, _)
\* The entries of rest that duplicate no entry kept before them, after kept.
Collapse(kept, rest) ==
    IF rest = <<>> THEN kept
    ELSE IF \E i \in 1..Len(kept) : SameChunk(kept[i], Head(rest))
    THEN Collapse(kept, Tail(rest))
    ELSE Collapse(Append(kept, Head(rest)), Tail(rest))

\* rerank_by_distance: best first, duplicates collapsed onto their best entry.
rerank_by_distance(chunks_with_scores) == Collapse(<<>>, SortByDistance(chunks_with_scores))

\* A metadata entry as a Citation field: None when the chunk has none.
MetaField(meta, key) == IF key \in DOMAIN meta THEN Str(<<meta[key]>>) ELSE Null

\* The Citation of one chunk: its id and its metadata, copied.
Citation(chunk) ==
    [chunk_id |-> chunk.chunk_id, ticker |-> MetaField(chunk.metadata, "ticker"),
     filing_type |-> MetaField(chunk.metadata, "filing_type"),
     period |-> MetaField(chunk.metadata, "period")]

\* build_citations: one Citation per chunk, in the order of the chunks.
build_citations(chunks) == [i \in 1..Len(chunks) |-> Citation(chunks[i])]

NoResult ==
    [kind |-> "none", answer |-> <<>>, input_tokens |-> 0, output_tokens |-> 0,
     total_tokens |-> 0, cost |-> 0, model |-> <<>>]

\* A UsageInfo left at its defaults.
UsageInfoDefault(result) ==
    [input_tokens |-> 0, output_tokens |-> 0, total_tokens |-> 0, cost |-> 0]

\* Lines 71-76: the UsageInfo built from the ChatResult.
UsageInfo(result) ==
    [input_tokens |-> result.input_tokens, output_tokens |-> result.output_tokens,
     total_tokens |-> result.total_tokens, cost |-> result.cost]

\* chunk.metadata.get(key, ''): the text of the entry, empty when it is missing.
MetaText(meta, key) == IF key \in DOMAIN meta THEN <<meta[key]>> ELSE <<>>

\* Lines 24-32, one chunk: the header line, the text and an empty line.
ContextParts(idx, chunk) ==
    << <<"[Chunk ", IntStr(idx), " | ">> \o MetaText(chunk.metadata, "ticker") \o <<" | ">>
         \o MetaText(chunk.metadata, "filing_type") \o <<" | ">>
         \o MetaText(chunk.metadata, "period") \o <<"]">>,
       <<chunk.text>>,
       <<>> >>

RECURSIVE AllParts(_, _)
\* Lines 25-31: the parts of the chunks from the idx-th on.
AllParts(chunks_with_scores, idx) ==
    IF idx > Len(chunks_with_scores) THEN <<>>
    ELSE ContextParts(idx, chunks_with_scores[idx][1]) \o AllParts(chunks_with_scores, idx + 1)

RECURSIVE JoinLines(_)
\* "\n".join(parts)
JoinLines(parts) ==
    IF parts = <<>> THEN <<>>
    ELSE IF Len(parts) = 1 THEN parts[1]
    ELSE parts[1] \o <<"\n">> \o JoinLines(Tail(parts))

\* The context with the chunks taken last first.
format_context_reversed(chunks_with_scores) ==
    JoinLines(AllParts([i \in 1..Len(chunks_with_scores) |->
                            chunks_with_scores[Len(chunks_with_scores) + 1 - i]], 1))

\* Lines 24-32.
_format_context(chunks_with_scores) == JoinLines(AllParts(chunks_with_scores, 1))

\* Line 56: the system prompt, the context after the fixed instructions.
SystemPrompt(context) == <<"SYSTEM_PROMPT", "\n", "\n", "Context:", "\n">> \o context

\* The retrieval made without the ticker filter.
RetrieveCallUnfiltered(req) ==
    [to |-> "retrieve", k |-> req.top_k, tickers |-> Null]

\* Lines 48-53: the one retrieval, with the request's top_k and tickers.
RetrieveCall(req) ==
    [to |-> "retrieve", k |-> req.top_k, tickers |-> req.tickers]

\* Lines 65-69: the call of the multi-provider client.
RouterCall(system_prompt, model_id) ==
    [to |-> "openrouter", system_prompt |-> system_prompt, model |-> model_id]

\* Line 81: the call of the default client.
DefaultCall(system_prompt) ==
    [to |-> "openai", system_prompt |-> system_prompt]

\* The retrieved list taken as it is.
RerankSkipped(chunks_with_scores) == chunks_with_scores

\* Line 54: the ranked list is the reranked retrieval.
Reranked(chunks_with_scores) == rerank_by_distance(chunks_with_scores)

\* The chunks of the ranked list, last first.
chunks_only_reversed(rk) ==
    [i \in 1..Len(rk) |-> rk[Len(rk) + 1 - i][1]]

\* Line 83: the chunks of the ranked list, without their scores.
chunks_only(rk) ==
    [i \in 1..Len(rk) |-> rk[i][1]]

\* Lines 85-92: one entry per ranked chunk.
raw_context(rk) ==
    [i \in 1..Len(rk) |->
        [text |-> rk[i][1].text, metadata |-> rk[i][1].metadata, score |-> rk[i][2]]]

\* Lines 84-99: the ChatResponse.
ChatResponse(answer_text, rk, model_used, usage_info) ==
    [answer |-> answer_text, citations |-> build_citations(chunks_only(rk)),
     raw_context |-> raw_context(rk), model |-> model_used, usage |-> usage_info]

NoResponse ==
    [answer |-> <<>>, citations |-> <<>>, raw_context |-> <<>>, model |-> Null, usage |-> Null]

Answered(resp, result, calls, rk) ==
    [how |-> "returned", exc |-> "", resp |-> resp, result |-> result, calls |-> calls,
     ranked |-> rk]

Failed(exc, calls, rk) ==
    [how |-> "raised", exc |-> exc, resp |-> NoResponse, result |-> NoResult, calls |-> calls,
     ranked |-> rk]

\* Lines 70-78: the response built from the ChatResult of openrouter.chat().
FromResult(rk, result, calls) ==
    Answered(ChatResponse(result.answer, rk, Str(result.model), UsageInfo(result)),
             result, calls, rk)

\* Lines 62-78: the branch taken when request.model is truthy.
RoutedAnswer(model_id, rk, reply, retrieval) ==
    IF model_id.exc # "" THEN Failed(model_id.exc, <<retrieval>>, rk)
    ELSE IF reply.kind = "error"
    THEN Failed("APIError",
                <<retrieval, RouterCall(SystemPrompt(_format_context(rk)), model_id.id)>>, rk)
    ELSE FromResult(rk, chat(model_id.id, reply),
                    <<retrieval, RouterCall(SystemPrompt(_format_context(rk)), model_id.id)>>)

\* The default branch, were it to call the multi-provider client as well.
DirectAnswerBoth(rk, reply, retrieval) ==
    IF reply.kind = "error"
    THEN Failed("APIError",
                <<retrieval, RouterCall(SystemPrompt(_format_context(rk)), DEFAULT_MODEL),
                  DefaultCall(SystemPrompt(_format_context(rk)))>>, rk)
    ELSE Answered(ChatResponse(reply.text, rk, Null, Null), NoResult,
                  <<retrieval, RouterCall(SystemPrompt(_format_context(rk)), DEFAULT_MODEL),
                    DefaultCall(SystemPrompt(_format_context(rk)))>>, rk)

\* Lines 79-81: the branch taken otherwise: the default client, no usage.
DirectAnswer(rk, reply, retrieval) ==
    IF reply.kind = "error"
    THEN Failed("APIError", <<retrieval, DefaultCall(SystemPrompt(_format_context(rk)))>>, rk)
    ELSE Answered(ChatResponse(reply.text, rk, Null, Null), NoResult,
                  <<retrieval, DefaultCall(SystemPrompt(_format_context(rk)))>>, rk)

\* Lines 54-99: what follows a retrieval that returned.
Generate(req, rk, reply, default_reply) ==
    IF Truthy(req.model)
    THEN RoutedAnswer(get_model_id(req.model.s), rk, reply, RetrieveCall(req))
    ELSE DirectAnswer(rk, default_reply, RetrieveCall(req))

\* answer(), were a failed retrieval taken as one that found nothing.
answer_masking(req, found, reply, default_reply) ==
    Generate(req, IF found.kind = "error" THEN <<>> ELSE Reranked(found.chunks),
             reply, default_reply)

\* RAGService.answer, given what the retriever and the two clients give.
answer(req, found, reply, default_reply) ==
    IF found.kind = "error" THEN Failed("RetrievalError", <<RetrieveCall(req)>>, <<>>)
    ELSE Generate(req, Reranked(found.chunks), reply, default_reply)

\* The model field of a ChatRequest: left out, empty, an alias, a full id,
\* an unknown name.
ModelArgs ==
    {Null, Str(<<>>), Str(<<"gpt-4o">>), Str(<<"claude-opus">>),
     Str(<<"x", "/", "y">>), Str(<<"bogus">>)}

\* The tickers field of a ChatRequest: left out, or one company.
TickerArgs == {Null, List(<<Str(<<"AMZN">>)>>)}

Requests == [model : ModelArgs, top_k : 1..MaxChunks, tickers : TickerArgs]

TokenCounts ==
    {Absent,
     [prompt_tokens |-> 0, completion_tokens |-> 0, total_tokens |-> 0],
     [prompt_tokens |-> 7, completion_tokens |-> 1, total_tokens |-> 8],
     [prompt_tokens |-> 1000000, completion_tokens |-> 0, total_tokens |-> 1000000]}

\* model_extra: None, empty, without a cost, with a cost of 0 or of 4 units.
Extras ==
    {Null, NoExtra, [keys |-> {"provider"}, cost |-> 0],
     [keys |-> {"provider", "cost"}, cost |-> 0], [keys |-> {"cost"}, cost |-> 4]}

Completions ==
    {[kind |-> "error"]}
    \cup {[kind |-> "ok", content |-> c, usage |-> u, model_extra |-> x] :
            c \in {Null, Str(<<"ans">>)}, u \in TokenCounts, x \in Extras}

DirectReplies ==
    {[kind |-> "error", text |-> <<>>], [kind |-> "ok", text |-> <<>>],
     [kind |-> "ok", text |-> <<"ans">>]}

--------------------------------------------------------------------------
(* main() of scripts/run_eval.py *)

\* str.lower() on one atom of the --models text.
LowerAtom(a) == CASE a = "ALL" -> "all" [] a = "All" -> "all" [] OTHER -> a

\* str.lower()
Lower(s) == [i \in 1..Len(s) |-> LowerAtom(s[i])]

\* The index of the first comma of s, or 0.
FirstComma(s) ==
    IF \E i \in 1..Len(s) : s[i] = "," THEN MinOf({i \in 1..Len(s) : s[i] = ","}) ELSE 0

RECURSIVE Split(_)
\* s.split(",")
Split(s) ==
    IF FirstComma(s) = 0 THEN <<s>>
    ELSE <<SubSeq(s, 1, FirstComma(s) - 1)>> \o Split(SubSeq(s, FirstComma(s) + 1, Len(s)))

RECURSIVE Join(_)
\* ",".join(items): how a --models text is written from its items.
Join(items) ==
    IF Len(items) = 1 THEN items[1] ELSE items[1] \o <<",">> \o Join(Tail(items))

\* Line 334: [m.strip() for m in args.models.split(",")]
ModelsOf(text) == [i \in 1..Len(Split(text)) |-> Strip(Split(text)[i])]

\* ---- handle_question of frontend/streamlit_app.py

RECURSIVE JoinTickers(_)
\* Line 240: ", ".join(new_tickers)
JoinTickers(items) ==
    IF items = <<>> THEN <<>>
    ELSE IF Len(items) = 1 THEN items[1].s
    ELSE items[1].s \o <<",", " ">> \o JoinTickers(Tail(items))

\* Lines 239-243: the parsed tickers when there are some, else the session's.
TickerStr(pq, session_tickers) ==
    IF Truthy(pq.tickers) THEN JoinTickers(pq.tickers.l) ELSE session_tickers

\* Lines 245-249: the parsed period when there is one, else the session's.
PeriodStr(pq, session_period) ==
    IF Truthy(pq.period) THEN pq.period.s ELSE session_period

\* The pieces of a split text that are not blank.
NonBlank(pieces) == SelectSeq(pieces, LAMBDA t : Strip(t) # <<>>)

\* Line 252: [t.strip().upper() for t in ticker_str.split(",") if t.strip()]
TickersList(ticker_str) ==
    [i \in 1..Len(NonBlank(Split(ticker_str))) |->
        Str(Upper(Strip(NonBlank(Split(ticker_str))[i])))]

\* Lines 253-258: the filters of the /chat request.
Payload(ticker_str, period_str) ==
    [tickers |-> IF TickersList(ticker_str) # <<>> THEN List(TickersList(ticker_str)) ELSE Null,
     period |-> IF Strip(period_str) # <<>> THEN Str(period_str) ELSE Null]

\* What _parse_query returns: the tickers (none, an empty list, one, two), the
\* period (none, empty, a quarter) and needs_clarification.
ParseResults ==
    [tickers : {Null, List(<<>>), List(<<Str(<<"A">>)>>), List(<<Str(<<"A">>), Str(<<"B">>)>>)},
     period : {Null, Str(<<>>), Str(<<"Q3-2025">>)},
     needs_clarification : {Bool(FALSE), Bool(TRUE)}]

\* st.session_state.active_tickers: empty, blank, one ticker, two.
SessionTickers == {<<>>, <<" ">>, <<"B">>, <<"b", ",", " ", "A">>}

\* st.session_state.active_period: empty, blank, a quarter.
SessionPeriods == {<<>>, <<" ">>, <<"Q1-2024">>}

\* A validation that reports an unknown name and goes on.
ValidateLenient(model) == "next"

\* Lines 337-341: get_model_id(model); a ValueError ends the process.
Validate(model) == IF get_model_id(model).exc = "ValueError" THEN "exit" ELSE "next"

\* The items a user writes in --models.
CliItems ==
    {<<"gpt-4o">>, <<" ", "claude-opus">>, <<"x", "/", "y">>, <<"bogus">>, <<>>,
     <<"all">>, <<"ALL">>}

CliTexts == {Join(items) : items \in UNION {[1..n -> CliItems] : n \in 1..MaxCliModels}}

--------------------------------------------------------------------------
(* Actions *)

\* One call of QueryParser.parse on the reply the provider gives: the reply
\* is extracted, decoded and normalized, and parse returns or raises.
Parse ==
    /\ pstate = "idle"
    /\ \E clock \in (IF ReadsPeriodClock(Try(response)) THEN Clocks ELSE {NoClock}) :
        \E r \in {parse(response, clock)} :
            /\ now' = clock
            /\ pstate' = r.how
            /\ parsed' = r.ret
            /\ pexc' = r.exc
    /\ fields' = Try(response).f
    /\ UNCHANGED <<origin, response, jvars, evars, avars, xvars>>

\* One call of EvalJudge.judge_answer: one client call, then the verdict.
JudgeAnswer ==
    /\ jstate = "idle"
    /\ jcalls' = jcalls + 1
    /\ IF jchat.kind = "error"
       THEN jstate' = "raised" /\ judgment' = judgment
       ELSE jstate' = "returned" /\ judgment' = judge_answer(jchat)
    /\ UNCHANGED <<jchat, pvars, evars, avars, xvars>>

\* One iteration of the loop of run_evaluation.
EvalPair ==
    /\ InLoop
    /\ \E sc \in Scenarios :
        LET model_name == models[mi]
            r == EvalBody(results, model_summaries, model_name, qi, sc.api, sc.chat)
        IN  /\ results' = r.rows
            /\ model_summaries' = r.sums
            /\ log' = Append(log, [q |-> qi, m |-> mi,
                                   api |-> IF sc.api.kind = "raise" THEN "raised" ELSE "returned",
                                   judge |-> IF sc.chat.kind = "none" THEN "not called"
                                             ELSE IF sc.chat.kind = "error" THEN "raised"
                                             ELSE "returned",
                                   reply |-> sc.api,
                                   judged |-> r.judged,
                                   start |-> model_summaries,
                                   end |-> r.sums,
                                   first |-> Len(results) + 1,
                                   n |-> Len(r.rows) - Len(results)])
    /\ before' = model_summaries
    /\ IF mi < Len(models) THEN mi' = mi + 1 /\ qi' = qi ELSE mi' = 1 /\ qi' = qi + 1
    /\ UNCHANGED <<questions, models, epc, summaries, pvars, jvars, avars, xvars>>

\* Lines 217-223: after the loop, compute the accuracies and return.
Finalize ==
    /\ epc = "loop"
    /\ ~InLoop
    /\ LET keys == KeysInOrder(models)
           final == [k \in 1..Len(keys) |->
                        [model_summaries[keys[k]] EXCEPT !.accuracy = Accuracy(model_summaries[keys[k]])]]
       IN  IF \E k \in 1..Len(keys) : final[k].accuracy.den = 0
           THEN epc' = "raised" /\ UNCHANGED <<summaries, model_summaries>>
           ELSE /\ epc' = "done"
                /\ summaries' = final
                /\ model_summaries' = [m \in DOMAIN model_summaries |->
                        [model_summaries[m] EXCEPT !.accuracy = Accuracy(model_summaries[m])]]
    /\ UNCHANGED <<questions, models, qi, mi, results, log, before, pvars, jvars, avars, xvars>>

\* One call of RAGService.answer.
Answer ==
    /\ astate = "idle"
    /\ \E r \in {answer(request, retrieved, completion, direct)} :
        /\ astate' = r.how
        /\ ranked' = r.ranked
        /\ aresponse' = r.resp
        /\ aresult' = r.result
        /\ aexc' = r.exc
        /\ acalls' = r.calls
    /\ UNCHANGED <<request, retrieved, completion, direct, pvars, jvars, evars, xvars>>

\* Line 54, twice over: a list is reranked, and the result reranked again.
Rerank ==
    /\ kstate = "idle"
    /\ kstate' = "done"
    /\ konce' = Reranked(klist)
    /\ ktwice' = Reranked(Reranked(klist))
    /\ UNCHANGED <<klist, pvars, jvars, evars, avars, cvars, hvars, dvars>>

\* Lines 213-263 of handle_question: the question is parsed, the session
\* values are updated, the /chat request is built and sent.
HandleQuestion ==
    /\ hstate = "idle"
    /\ hstate' = "sent"
    /\ htoast' = Truthy(hparsed.needs_clarification)
    /\ hbefore' = [active_tickers |-> active_tickers, active_period |-> active_period]
    /\ active_tickers' = TickerStr(hparsed, active_tickers)
    /\ active_period' = PeriodStr(hparsed, active_period)
    /\ payload' = Payload(TickerStr(hparsed, active_tickers), PeriodStr(hparsed, active_period))
    /\ UNCHANGED <<hparsed, pvars, jvars, evars, avars, cvars, kvars, dvars>>

\* rag_service.py lines 103-104: get_rag_service constructs a vector store.
MakeStore(r) ==
    /\ dpc[r] = "start"
    /\ made' = [made EXCEPT !.store = @ + 1]
    /\ held' = [held EXCEPT ![r].store = made.store + 1]
    /\ dpc' = [dpc EXCEPT ![r] = "openai"]
    /\ UNCHANGED <<dmodel, openai_cache>>

\* dependencies.py lines 14-15: get_openai_client finds its cache filled.
OpenAIHit(r) ==
    /\ dpc[r] = "openai"
    /\ openai_cache # 0
    /\ held' = [held EXCEPT ![r].openai = openai_cache]
    /\ dpc' = [dpc EXCEPT ![r] = "answer"]
    /\ UNCHANGED <<dmodel, openai_cache, made>>

\* dependencies.py lines 14-15: get_openai_client finds its cache empty and
\* enters the function.
OpenAIMiss(r) ==
    /\ dpc[r] = "openai"
    /\ openai_cache = 0
    /\ dpc' = [dpc EXCEPT ![r] = "construct"]
    /\ UNCHANGED <<dmodel, openai_cache, made, held>>

\* dependencies.py lines 16-22: the client is constructed and returned; the
\* cache keeps it unless another request has filled the cache meanwhile.
OpenAIConstruct(r) ==
    /\ dpc[r] = "construct"
    /\ made' = [made EXCEPT !.openai = @ + 1]
    /\ held' = [held EXCEPT ![r].openai = made.openai + 1]
    /\ openai_cache' = IF openai_cache = 0 THEN made.openai + 1 ELSE openai_cache
    /\ dpc' = [dpc EXCEPT ![r] = "answer"]
    /\ UNCHANGED dmodel

\* rag_service.py lines 62-65 and dependencies.py lines 25-32: answer() asks
\* get_openrouter_client for the multi-provider client.
GetRouter(r) ==
    /\ dpc[r] = "answer"
    /\ dmodel[r]
    /\ made' = [made EXCEPT !.router = @ + 1]
    /\ held' = [held EXCEPT ![r].router = made.router + 1]
    /\ dpc' = [dpc EXCEPT ![r] = "done"]
    /\ UNCHANGED <<dmodel, openai_cache>>

\* rag_service.py lines 79-81: answer() uses the default client it was given.
UseDefault(r) ==
    /\ dpc[r] = "answer"
    /\ ~dmodel[r]
    /\ dpc' = [dpc EXCEPT ![r] = "done"]
    /\ UNCHANGED <<dmodel, openai_cache, made, held>>

\* One step of one /chat request.
Serve(r) ==
    /\ \/ MakeStore(r)
       \/ OpenAIHit(r)
       \/ OpenAIMiss(r)
       \/ OpenAIConstruct(r)
       \/ GetRouter(r)
       \/ UseDefault(r)
    /\ UNCHANGED <<pvars, jvars, evars, avars, cvars, kvars, hvars>>

\* Lines 330-334: the list of models, from --models.
ParseModels ==
    /\ cpc = "models"
    /\ IF Lower(cargs) = <<"all">>
       THEN cmodels' = get_all_model_names /\ cpc' = "load"
       ELSE cmodels' = ModelsOf(cargs) /\ cpc' = "validate"
    /\ UNCHANGED <<cargs, cvi, cresolved, cevents, cstatus, pvars, jvars, evars, avars, yvars>>

\* Lines 336-341: one iteration of the validation loop.
ValidateModel ==
    /\ cpc = "validate"
    /\ cresolved' = Append(cresolved, [name |-> cmodels[cvi], out |-> get_model_id(cmodels[cvi])])
    /\ IF Validate(cmodels[cvi]) = "exit"
       THEN cpc' = "exited" /\ cstatus' = 1 /\ cvi' = cvi
       ELSE /\ cvi' = cvi + 1
            /\ cpc' = IF cvi = Len(cmodels) THEN "load" ELSE "validate"
            /\ cstatus' = cstatus
    /\ UNCHANGED <<cargs, cmodels, cevents, pvars, jvars, evars, avars, yvars>>

\* Lines 343-345: load the questions; a file that cannot be read ends the
\* process with a traceback.
LoadQuestions ==
    /\ cpc = "load"
    /\ cevents' = Append(cevents, "load_questions_from_csv")
    /\ \/ cpc' = "judge" /\ cstatus' = cstatus
       \/ cpc' = "exited" /\ cstatus' = 1
    /\ UNCHANGED <<cargs, cmodels, cvi, cresolved, pvars, jvars, evars, avars, yvars>>

\* Line 352: create the judge.
CreateJudge ==
    /\ cpc = "judge"
    /\ cevents' = Append(cevents, "get_eval_judge")
    /\ cpc' = "run"
    /\ UNCHANGED <<cargs, cmodels, cvi, cresolved, cstatus, pvars, jvars, evars, avars, yvars>>

\* Lines 356-364: run the batch (the RAG API and judge calls), save and print.
RunBatch ==
    /\ cpc = "run"
    /\ cevents' = Append(cevents, "run_evaluation")
    /\ cpc' = "done"
    /\ UNCHANGED <<cargs, cmodels, cvi, cresolved, cstatus, pvars, jvars, evars, avars, yvars>>

\* parse() has been called and the provider is about to give its reply.
ParseInit ==
    /\ pstate = "idle"
    /\ origin \in Replies
    /\ response = origin.text
    /\ fields = <<>>
    /\ parsed = <<>>
    /\ pexc = ""
    /\ now = NoClock

\* No parse() is running.
ParseOff ==
    /\ pstate = "off"
    /\ origin = Plain("none", <<>>)
    /\ response = <<>>
    /\ fields = <<>>
    /\ parsed = <<>>
    /\ pexc = ""
    /\ now = NoClock

\* judge_answer() has been called and its client is about to answer.
JudgeInit ==
    /\ jstate = "idle"
    /\ jchat \in JudgeChats
    /\ judgment = NoJudgment
    /\ jcalls = 0

\* No judge_answer() is running.
JudgeOff ==
    /\ jstate = "off"
    /\ jchat = ChatError
    /\ judgment = NoJudgment
    /\ jcalls = 0

\* run_evaluation has been called: lines 134-143.
EvalInit ==
    /\ questions \in 0..MaxQuestions
    /\ models \in ModelLists
    /\ epc = "loop"
    /\ qi = 1
    /\ mi = 1
    /\ results = <<>>
    /\ model_summaries = [m \in {models[i] : i \in 1..Len(models)} |-> ModelSummary(m)]
    /\ summaries = <<>>
    /\ log = <<>>
    /\ before = model_summaries

\* No run_evaluation is running.
EvalOff ==
    /\ questions = 0
    /\ models = <<>>
    /\ epc = "off"
    /\ qi = 1
    /\ mi = 1
    /\ results = <<>>
    /\ model_summaries = <<>>
    /\ summaries = <<>>
    /\ log = <<>>
    /\ before = <<>>

\* answer() has been called with a request.
AnswerInit ==
    /\ astate = "idle"
    /\ request \in Requests
    /\ retrieved \in Retrieve(RetrieveCall(request))
    /\ ranked = <<>>
    /\ completion \in (IF Truthy(request.model) THEN Completions ELSE {[kind |-> "error"]})
    /\ direct \in (IF Truthy(request.model) THEN {[kind |-> "error", text |-> <<>>]}
                    ELSE DirectReplies)
    /\ aresult = NoResult
    /\ aresponse = NoResponse
    /\ aexc = ""
    /\ acalls = <<>>

\* No answer() is running.
AnswerOff ==
    /\ astate = "off"
    /\ request = [model |-> Null, top_k |-> 1, tickers |-> Null]
    /\ retrieved = [kind |-> "error", chunks |-> <<>>]
    /\ ranked = <<>>
    /\ completion = [kind |-> "error"]
    /\ direct = [kind |-> "error", text |-> <<>>]
    /\ aresult = NoResult
    /\ aresponse = NoResponse
    /\ aexc = ""
    /\ acalls = <<>>

\* Reranking is given a list.
RerankInit ==
    /\ kstate = "idle"
    /\ klist \in ScoredLists
    /\ konce = <<>>
    /\ ktwice = <<>>

\* No reranking is running.
RerankOff ==
    /\ kstate = "off"
    /\ klist = <<>>
    /\ konce = <<>>
    /\ ktwice = <<>>

\* No payload has been built.
NoPayload == [tickers |-> Null, period |-> Null]

\* A question has been typed; the session holds what earlier questions left.
HandleInit ==
    /\ hstate = "idle"
    /\ hparsed \in ParseResults
    /\ active_tickers \in SessionTickers
    /\ active_period \in SessionPeriods
    /\ hbefore = [active_tickers |-> <<>>, active_period |-> <<>>]
    /\ payload = NoPayload
    /\ htoast = FALSE

\* No question is being handled.
HandleOff ==
    /\ hstate = "off"
    /\ hparsed = [tickers |-> Null, period |-> Null, needs_clarification |-> Bool(FALSE)]
    /\ active_tickers = <<>>
    /\ active_period = <<>>
    /\ hbefore = [active_tickers |-> <<>>, active_period |-> <<>>]
    /\ payload = NoPayload
    /\ htoast = FALSE

\* The /chat requests in flight.
ChatRequests == 1..MaxRequests

\* No instance of any kind.
NoInstances == [openai |-> 0, store |-> 0, router |-> 0]

\* The process has started and the requests have arrived; nothing has been
\* constructed.
DepsInit ==
    /\ dpc = [r \in ChatRequests |-> "start"]
    /\ dmodel \in [ChatRequests -> BOOLEAN]
    /\ openai_cache = 0
    /\ made = NoInstances
    /\ held = [r \in ChatRequests |-> NoInstances]

\* No request is being served.
DepsOff ==
    /\ dpc = [r \in ChatRequests |-> "off"]
    /\ dmodel = [r \in ChatRequests |-> FALSE]
    /\ openai_cache = 0
    /\ made = NoInstances
    /\ held = [r \in ChatRequests |-> NoInstances]

\* main() has parsed its arguments: line 325.
CliInit ==
    /\ cpc = "models"
    /\ cargs \in CliTexts
    /\ cmodels = <<>>
    /\ cvi = 1
    /\ cresolved = <<>>
    /\ cevents = <<>>
    /\ cstatus = 0

\* No main() is running.
CliOff ==
    /\ cpc = "off"
    /\ cargs = <<>>
    /\ cmodels = <<>>
    /\ cvi = 1
    /\ cresolved = <<>>
    /\ cevents = <<>>
    /\ cstatus = 0

\* None of the later components is running.
\* The components after main() are idle.
LaterOff == RerankOff /\ HandleOff /\ DepsOff

OthersOff == CliOff /\ LaterOff

\* The evaluation harness.
Init == ParseOff /\ JudgeOff /\ EvalInit /\ AnswerOff /\ OthersOff

Next == EvalPair \/ Finalize

Spec == Init /\ [][Next]_vars

\* The parser alone.
InitParse == ParseInit /\ JudgeOff /\ EvalOff /\ AnswerOff /\ OthersOff

SpecParse == InitParse /\ [][Parse]_vars

\* The judge alone.
InitJudge == ParseOff /\ JudgeInit /\ EvalOff /\ AnswerOff /\ OthersOff

SpecJudge == InitJudge /\ [][JudgeAnswer]_vars

\* The answer service alone.
InitAnswer == ParseOff /\ JudgeOff /\ EvalOff /\ AnswerInit /\ OthersOff

SpecAnswer == InitAnswer /\ [][Answer]_vars

\* The evaluation command line alone.
InitMain == ParseOff /\ JudgeOff /\ EvalOff /\ AnswerOff /\ CliInit /\ LaterOff

NextMain == ParseModels \/ ValidateModel \/ LoadQuestions \/ CreateJudge \/ RunBatch

SpecMain == InitMain /\ [][NextMain]_vars

InitRerank == ParseOff /\ JudgeOff /\ EvalOff /\ AnswerOff /\ CliOff /\ RerankInit /\ HandleOff /\ DepsOff

SpecRerank == InitRerank /\ [][Rerank]_vars

InitHandle == ParseOff /\ JudgeOff /\ EvalOff /\ AnswerOff /\ CliOff /\ RerankOff /\ HandleInit /\ DepsOff

SpecHandle == InitHandle /\ [][HandleQuestion]_vars

InitDeps ==
    ParseOff /\ JudgeOff /\ EvalOff /\ AnswerOff /\ CliOff /\ RerankOff /\ HandleOff /\ DepsInit

NextDeps == \E r \in ChatRequests : Serve(r)

SpecDeps == InitDeps /\ [][NextDeps]_vars

--------------------------------------------------------------------------
(* Claims about QueryParser.parse *)

\* The reply is one extraction object that leaves out at least one key.
KeyMissing ==
    origin.kind = "object" /\ Absent \in {origin.tk, origin.pd, origin.nc, origin.cm}

\* C1: parse fails closed: on a reply that is not JSON, is truncated JSON, or
\* is a JSON object missing one of the four keys, parse returns exactly
\* (None, None, True, <the fixed fallback message>).
C1_FailsClosed ==
    (pstate # "idle" /\ (origin.kind \in {"nonjson", "truncated"} \/ KeyMissing))
        => (pstate = "returned" /\ parsed = FallbackTuple)

\* C2: parse never raises to its caller: whatever the provider reply, parse
\* ends by returning a 4-tuple.
C2_NeverRaises ==
    pstate # "idle" => (pstate = "returned" /\ Len(parsed) = 4)

\* The tickers field of the reply is a list of strings.
TickerListGiven ==
    /\ origin.kind = "object"
    /\ origin.tk.t = "list"
    /\ \A i \in 1..Len(origin.tk.l) : origin.tk.l[i].t = "str"

\* C7: for a well-formed extraction JSON whose tickers field is a list of
\* strings, parse returns a ticker list of the same length and order, each
\* element being the uppercased element of the reply.
C7_TickersUppercased ==
    (pstate # "idle" /\ TickerListGiven)
        => /\ pstate = "returned"
           /\ parsed[1].t = "list"
           /\ Len(parsed[1].l) = Len(origin.tk.l)
           /\ \A i \in 1..Len(origin.tk.l) :
                  parsed[1].l[i] = Str(Upper(origin.tk.l[i].s))

\* ceil(month / 3)
CeilThird(month) == CHOOSE n \in 0..12 : 3 * (n - 1) < month /\ month <= 3 * n

\* parse() ended through its return statement at line 102.
ReturnedNormally == pstate = "returned" /\ pexc = ""

\* C8: when the decoded JSON has period = "CURRENT_QUARTER", parse returns
\* Q<n>-<year> with year the year of the clock and n = ceil(month / 3) of
\* the month of the clock, n in 1..4; any other period is returned as it was
\* decoded.
C8_CurrentQuarterResolved ==
    ReturnedNormally =>
        IF fields[2] = Str(SENTINEL)
        THEN /\ now \in Clocks
             /\ CeilThird(now.month) \in 1..4
             /\ parsed[2] = Str(<<"Q", IntStr(CeilThird(now.month)), "-", IntStr(now.year)>>)
        ELSE parsed[2] = fields[2]

\* C8 witness: a reply with the sentinel, parsed in December 2026.
C8_Witness ==
    /\ ReturnedNormally
    /\ origin.pd = Str(SENTINEL)
    /\ now = [month |-> 12, year |-> 2026]
    /\ parsed[2] = Str(<<"Q", "4", "-", "2026">>)

\* A string of the form Q<digit>-<YYYY>.
Canonical(v) ==
    /\ v.t = "str"
    /\ Len(v.s) = 4
    /\ v.s[1] = "Q"
    /\ v.s[2] \in {"0", "1", "2", "3", "4", "5"}
    /\ v.s[3] = "-"
    /\ v.s[4] \in {"2025", "2026"}

\* C9: the period of every result parse returns is null or a string of the
\* canonical form Q<digit>-<YYYY>.
C9_PeriodCanonical ==
    pstate = "returned" => (parsed[2] = Null \/ Canonical(parsed[2]))

--------------------------------------------------------------------------
(* Claims about run_evaluation *)

\* C3: for Q questions and M models run_evaluation returns exactly Q x M
\* rows, exactly one per (question, model) pair, whatever the API call and
\* the judge call give.
C3_OneRowPerPair ==
    epc = "done" =>
        /\ Len(results) = questions * Len(models)
        /\ \A k \in 1..Len(log) : log[k].n = 1

\* The row recorded for the k-th pair handled.
RowOf(k) == results[log[k].first]

\* C4: a pair whose RAG API call raises is recorded as one row with
\* is_correct = false and zero input tokens, output tokens, cost and judge
\* usage; the pairs are handled in order, none is skipped, the batch never
\* aborts, and when run_evaluation returns every pair has been handled.
C4_FailureIsolated ==
    /\ epc \in {"loop", "done"}
    /\ \A k \in 1..Len(log) :
        /\ log[k].q = ((k - 1) \div Len(models)) + 1
        /\ log[k].m = ((k - 1) % Len(models)) + 1
        /\ log[k].api = "raised" =>
            /\ log[k].n = 1
            /\ log[k].judge = "not called"
            /\ RowOf(k).model = models[log[k].m]
            /\ RowOf(k).question = log[k].q
            /\ RowOf(k).is_correct = FALSE
            /\ RowOf(k).input_tokens = IntV(0)
            /\ RowOf(k).output_tokens = IntV(0)
            /\ RowOf(k).cost = IntV(0)
            /\ RowOf(k).judge_input_tokens = 0
            /\ RowOf(k).judge_output_tokens = 0
            /\ RowOf(k).judge_cost = 0
    /\ epc = "done" => Len(log) = questions * Len(models)

\* C4 witness: the first of four pairs fails, the three after it are handled
\* and the second is judged correct.
C4_Witness ==
    /\ epc = "done"
    /\ Len(log) = 4
    /\ log[1].api = "raised"
    /\ RowOf(1).is_correct = FALSE
    /\ log[2].api = "returned"
    /\ RowOf(2).is_correct = TRUE

\* C6: after run_evaluation every ModelSummary has accuracy = correct /
\* total_questions when total_questions > 0 and accuracy = 0.0 when
\* total_questions = 0; no division by zero occurs.
C6_AccuracyDefined ==
    /\ epc # "raised"
    /\ epc = "done" =>
        /\ Len(summaries) = Cardinality({models[i] : i \in 1..Len(models)})
        /\ \A k \in 1..Len(summaries) :
            /\ summaries[k].accuracy.den # 0
            /\ IF summaries[k].total_questions > 0
               THEN summaries[k].accuracy.num * summaries[k].total_questions
                        = summaries[k].correct * summaries[k].accuracy.den
               ELSE summaries[k].accuracy.num = 0

\* C6 witness: a model with one of two answers correct, and accuracy 1/2.
C6_Witness ==
    /\ epc = "done"
    /\ \E k \in 1..Len(summaries) :
        /\ summaries[k].total_questions = 2
        /\ summaries[k].correct = 1
        /\ summaries[k].accuracy = [num |-> 1, den |-> 2]

--------------------------------------------------------------------------
(* Claims about EvalJudge.judge_answer *)

\* The one word CORRECT in any letter case, and nothing else.
BareVerdict(a) == Len(a) = 1 /\ a[1] \in {"CORRECT", "correct", "Correct"}

\* The word CORRECT in any letter case with only whitespace around it.
PaddedVerdict(a) ==
    \E i \in 1..Len(a) :
        /\ a[i] \in {"CORRECT", "correct", "Correct"}
        /\ \A j \in 1..Len(a) : j # i => a[j] \in WS

\* judge_answer() has ended and its client gave a reply.
Judged == jstate \in {"returned", "raised"} /\ jchat.kind = "result"

\* C5 as stated: is_correct is true only when the reply equals the single
\* word CORRECT compared case-insensitively; every other reply yields
\* is_correct = false, is not an error and is not retried.
C5_VerdictExact ==
    Judged =>
        /\ jstate = "returned"
        /\ jcalls = 1
        /\ judgment.is_correct <=> BareVerdict(jchat.answer)

\* C5: is_correct is true exactly when the reply, with leading and trailing
\* whitespace stripped, equals the single word CORRECT compared
\* case-insensitively; every other reply yields is_correct = false, is not
\* an error and is not retried.
C5_VerdictStripped ==
    Judged =>
        /\ jstate = "returned"
        /\ jcalls = 1
        /\ judgment.is_correct <=> PaddedVerdict(jchat.answer)

\* C5 witness: CORRECT followed by an explanation is judged incorrect, with
\* one client call.
C5_Witness ==
    /\ jstate = "returned"
    /\ jchat.kind = "result"
    /\ jchat.answer = <<"CORRECT", ".", "because">>
    /\ judgment.is_correct = FALSE
    /\ jcalls = 1

--------------------------------------------------------------------------
(* Claims about RAGService.answer *)

\* The request supplies a model: the field is neither left out nor empty.
ModelSupplied == Truthy(request.model)

\* Whom the last answer() called, in order.
Callees == [i \in 1..Len(acalls) |-> acalls[i].to]

\* C10: the response carries a non-null usage, taken from the provider
\* ChatResult, and a non-null model if and only if the request supplied a
\* model; when no model is supplied the default client is invoked and both
\* usage and model are null.
C10_UsageIffModel ==
    astate = "returned" =>
        IF ModelSupplied
        THEN /\ Callees = <<"retrieve", "openrouter">>
             /\ aresult.kind = "result"
             /\ aresponse.usage # Null
             /\ aresponse.usage = [input_tokens |-> aresult.input_tokens,
                                   output_tokens |-> aresult.output_tokens,
                                   total_tokens |-> aresult.total_tokens,
                                   cost |-> aresult.cost]
             /\ aresponse.model # Null
             /\ aresponse.model = Str(aresult.model)
        ELSE /\ Callees = <<"retrieve", "openai">>
             /\ aresponse.usage = Null
             /\ aresponse.model = Null

\* C10 witness: a request for the alias gpt-4o is answered with the usage of
\* the provider's ChatResult and the id of the model.
C10_Witness ==
    /\ astate = "returned"
    /\ request.model = Str(<<"gpt-4o">>)
    /\ aresponse.usage = [input_tokens |-> 7, output_tokens |-> 1, total_tokens |-> 8, cost |-> 275]
    /\ aresponse.model = Str(<<"openai", "/", "gpt-4o">>)

--------------------------------------------------------------------------
(* Claims about the model registry and the evaluation command line *)

\* The name contains the namespace separator.
HasSeparator(name) == \E i \in 1..Len(name) : name[i] = "/"

\* The name is one of the aliases.
KnownAlias(name) == name \in {<<"claude-opus">>, <<"gpt-4o">>}

\* C11: get_model_id returns a name containing '/' unchanged, maps a name
\* without '/' that is a known alias to the alias's canonical id, and fails
\* on any other name with an error that lists the known aliases, returning
\* no value.
C11_ModelResolution ==
    \A k \in 1..Len(cresolved) :
        IF HasSeparator(cresolved[k].name)
        THEN cresolved[k].out.exc = "" /\ cresolved[k].out.id = cresolved[k].name
        ELSE IF KnownAlias(cresolved[k].name)
        THEN /\ cresolved[k].out.exc = ""
             /\ cresolved[k].out.id =
                    IF cresolved[k].name = <<"gpt-4o">>
                    THEN <<"openai", "/", "gpt-4o">>
                    ELSE <<"anthropic", "/", "claude-opus-4-20250514">>
        ELSE /\ cresolved[k].out.exc = "ValueError"
             /\ cresolved[k].out.id = <<>>
             /\ cresolved[k].out.msg.unknown = cresolved[k].name
             /\ cresolved[k].out.msg.available = << <<"claude-opus">>, <<"gpt-4o">> >>

\* C11 witness: a full id is passed through, then an unknown name fails.
C11_Witness ==
    /\ Len(cresolved) = 2
    /\ cresolved[1].name = <<"x", "/", "y">>
    /\ cresolved[1].out.id = <<"x", "/", "y">>
    /\ cresolved[2].name = <<"bogus">>
    /\ cresolved[2].out.exc = "ValueError"

\* --models names a model that cannot be resolved.
Unresolvable ==
    /\ Lower(cargs) # <<"all">>
    /\ \E i \in 1..Len(ModelsOf(cargs)) :
        ~HasSeparator(ModelsOf(cargs)[i]) /\ ~KnownAlias(ModelsOf(cargs)[i])

\* C13: when a requested model name is unresolvable the command line exits
\* with a non-zero status before the batch starts: it never gets past the
\* validation, so no question file is loaded, no judge is created and no
\* RAG API or judge call is issued, and the status it exits with is not 0.
C13_ExitsBeforeBatch ==
    (cpc # "off" /\ Unresolvable) =>
        /\ cpc \in {"models", "validate", "exited"}
        /\ cevents = <<>>
        /\ cpc = "exited" => cstatus # 0
        /\ cstatus = 0 => cpc # "exited"

\* C13 witness: the second of two names is unknown and main() has exited
\* with status 1 having done nothing else.
C13_Witness ==
    /\ cpc = "exited"
    /\ cstatus = 1
    /\ cargs = <<"gpt-4o", ",", "bogus">>
    /\ Len(cresolved) = 2
    /\ cevents = <<>>

--------------------------------------------------------------------------
(* Claims about the provider client *)

\* The completion carries a cost field.
ExplicitCost ==
    /\ completion.model_extra # Null
    /\ "cost" \in completion.model_extra.keys

\* C12: the cost of a ChatResult is the explicit cost field of the provider
\* response when it carries one, even when the model is in the cost table;
\* otherwise input_tokens/1e6 * input_price + output_tokens/1e6 *
\* output_price when the model is in the table (1,000,000 input tokens and
\* no output tokens cost the input price: 2.5 dollars for openai/gpt-4o);
\* otherwise 0.
C12_CostPrecedence ==
    aresult.kind = "result" =>
        /\ aresult.cost =
            IF ExplicitCost THEN completion.model_extra.cost
            ELSE IF aresult.model = <<"openai", "/", "gpt-4o">>
            THEN aresult.input_tokens * 25 + aresult.output_tokens * 100
            ELSE IF aresult.model = <<"anthropic", "/", "claude-opus-4-20250514">>
            THEN aresult.input_tokens * 150 + aresult.output_tokens * 750
            ELSE 0
        /\ (/\ ~ExplicitCost
            /\ aresult.model = <<"openai", "/", "gpt-4o">>
            /\ aresult.input_tokens = 1000000
            /\ aresult.output_tokens = 0) => aresult.cost = 25 * 1000000

\* C12 witness: a completion of a model of the table carries the cost 4,
\* and 4 is the cost of the result, not the 275 the table gives.
C12_Witness ==
    /\ aresult.kind = "result"
    /\ aresult.model = <<"openai", "/", "gpt-4o">>
    /\ aresult.input_tokens = 7
    /\ aresult.output_tokens = 1
    /\ completion.model_extra = [keys |-> {"cost"}, cost |-> 4]
    /\ aresult.cost = 4


\* The tickers the request lists.
RequestedTickers == {request.tickers.l[i] : i \in 1..Len(request.tickers.l)}

\* The Citations of the chunks the retriever returned.
RetrievedCitations == {Citation(retrieved.chunks[j][1]) : j \in 1..Len(retrieved.chunks)}

\* C14: with a retriever that returns at most k results, all matching the
\* ticker filter, a response of answer() has at most top_k citations, every
\* citation's ticker is one of the requested tickers, and every citation is
\* built from a chunk of the one retrieval answer() made.
C14_CitationsBounded ==
    astate = "returned" =>
        /\ Len(aresponse.citations) <= request.top_k
        /\ request.tickers # Null =>
              \A i \in 1..Len(aresponse.citations) :
                  aresponse.citations[i].ticker \in RequestedTickers
        /\ \A i \in 1..Len(aresponse.citations) : aresponse.citations[i] \in RetrievedCitations
        /\ Cardinality({i \in 1..Len(acalls) : acalls[i].to = "retrieve"}) = 1
        /\ acalls[1] = [to |-> "retrieve", k |-> request.top_k, tickers |-> request.tickers]

\* C14 witness: a request for two chunks of AMZN is answered with two
\* citations, both of AMZN.
C14_Witness ==
    /\ astate = "returned"
    /\ request.tickers = List(<<Str(<<"AMZN">>)>>)
    /\ request.top_k = 2
    /\ Len(aresponse.citations) = 2
    /\ aresponse.citations[1].ticker = Str(<<"AMZN">>)
    /\ aresponse.citations[2].ticker = Str(<<"AMZN">>)

\* C15: in a response of answer() the citation list has the length and the
\* order of the ranked chunk list: citations[i] is the projection (the id and
\* the copied metadata) of the i-th ranked chunk, for every i.
C15_CitationsFollowRanked ==
    astate = "returned" =>
        /\ Len(aresponse.citations) = Len(ranked)
        /\ \A i \in 1..Len(ranked) :
              /\ aresponse.citations[i].chunk_id = ranked[i][1].chunk_id
              /\ aresponse.citations[i] = Citation(ranked[i][1])

\* C15 witness: a response whose two citations are those of two different
\* ranked chunks, in the order of the ranking.
C15_Witness ==
    /\ astate = "returned"
    /\ Len(ranked) = 2
    /\ ranked[1][1].chunk_id = 2
    /\ ranked[2][1].chunk_id = 1
    /\ aresponse.citations[1].chunk_id = 2
    /\ aresponse.citations[2].chunk_id = 1
    /\ aresponse.citations[1].filing_type = Null

\* C16: when the retrieval raises inside answer(), answer() raises that
\* error to its caller, has called no provider, and returns no response: no
\* answer, citations or context are made up.
C16_RetrievalFailureSurfaces ==
    (astate # "idle" /\ astate # "off" /\ retrieved.kind = "error") =>
        /\ astate = "raised"
        /\ aexc = "RetrievalError"
        /\ Callees = <<"retrieve">>
        /\ aresponse = NoResponse
        /\ aresult = NoResult

\* C16 witness: the retrieval fails for a request naming a known model, which
\* the provider would have answered.
C16_Witness ==
    /\ astate = "raised"
    /\ retrieved.kind = "error"
    /\ request.model = Str(<<"gpt-4o">>)
    /\ completion.kind = "ok"
    /\ aexc = "RetrievalError"

\* The multi-provider call failed, or its completion carries no content.
NoContent == completion.kind = "error" \/ completion.content = Null

\* C17: answer() returns a response with an empty answer in no execution in
\* which the provider call failed or produced no content: a provider failure
\* is reported to the caller, never passed on as a silent empty answer.
\* Stated for the requests that name a model, whose client is OpenRouterClient.
C17_NoSilentEmptyAnswer ==
    (ModelSupplied /\ NoContent) => ~(astate = "returned" /\ aresponse.answer = <<>>)

\* C18: for every list L of scored chunks, rerank(rerank(L)) = rerank(L),
\* rerank(L) is no longer than L, and no two entries of rerank(L) have the
\* same chunk_id.
C18_RerankIdempotent ==
    kstate = "done" =>
        /\ ktwice = konce
        /\ Len(konce) <= Len(klist)
        /\ \A i, j \in 1..Len(konce) :
              konce[i][1].chunk_id = konce[j][1].chunk_id => i = j

\* C18 witness: a list of three entries, two of them of the same chunk and
\* the nearest entry last, is reranked to two entries, the nearest first.
C18_Witness ==
    /\ kstate = "done"
    /\ Len(klist) = 3
    /\ klist[1][1].chunk_id = 2
    /\ klist[2][1].chunk_id = 2
    /\ klist[3][1].chunk_id = 1
    /\ klist[3][2] < klist[1][2]
    /\ Len(konce) = 2
    /\ konce[1][1].chunk_id = 1

\* C20: one call of answer() makes at most one retrieval call and at most
\* one provider call, in that order: the retrieval is the first call, a
\* provider is called only after a retrieval that returned and with the
\* context of its reranked list, and of the two clients exactly one is called
\* by an answer() that returns (the multi-provider one if and only if the
\* request names a model), never both.
C20_OneRetrievalOneProvider ==
    (astate = "returned" \/ astate = "raised") =>
        /\ Callees \in {<<"retrieve">>, <<"retrieve", "openrouter">>, <<"retrieve", "openai">>}
        /\ Len(acalls) = 2 =>
              /\ retrieved.kind = "ok"
              /\ ranked = rerank_by_distance(retrieved.chunks)
              /\ acalls[2].system_prompt = SystemPrompt(_format_context(ranked))
              /\ acalls[2].to = "openrouter" <=> ModelSupplied
        /\ astate = "returned" => Len(acalls) = 2

\* C20 witness: a request without a model is answered after one retrieval of
\* two chunks and one call of the default client, whose prompt lists them.
C20_Witness ==
    /\ astate = "returned"
    /\ ~ModelSupplied
    /\ Callees = <<"retrieve", "openai">>
    /\ Len(ranked) = 2
    /\ Len(acalls[2].system_prompt) > 20

\* C19: when the parse result has needs_clarification = true, the /chat
\* request that follows is sent with the parsed tickers and period treated as
\* absent: its filters are those the session values alone give.
C19_ClarificationIgnoresParsed ==
    (hstate = "sent" /\ hparsed.needs_clarification = Bool(TRUE)) =>
        payload = Payload(hbefore.active_tickers, hbefore.active_period)

\* The answer text of the RAG API reply of the k-th pair handled.
AnswerOf(k) == IF log[k].reply.answer = Absent THEN Str(<<>>) ELSE log[k].reply.answer

\* C21: in run_evaluation the judge is called at most once per (question,
\* model) pair, only after the pair's RAG API call has returned, and with the
\* pair's question and the answer text of that call; it is never called for
\* a pair whose RAG API call failed.
C21_JudgeAfterAnswer ==
    \A k \in 1..Len(log) :
        /\ Len(log[k].judged) <= 1
        /\ log[k].api = "raised" => log[k].judged = <<>>
        /\ log[k].judged # <<>> =>
              /\ log[k].api = "returned"
              /\ log[k].judged[1].question = log[k].q
              /\ log[k].judged[1].actual_answer = AnswerOf(k)

\* C21 witness: of two pairs the first fails at the RAG API and is not
\* judged, the second is judged with the answer its call returned.
C21_Witness ==
    /\ Len(log) >= 2
    /\ log[1].api = "raised"
    /\ log[1].judged = <<>>
    /\ log[2].api = "returned"
    /\ Len(log[2].judged) = 1
    /\ log[2].judged[1].actual_answer = Str(<<"other">>)

\* The reply is an object inside prose and parse() has ended.
WrappedParsed == pstate # "idle" /\ pstate # "off" /\ origin.kind = "wrapped"

\* parse() ended on the wrapped reply as it ends on the object alone.
SameAsAlone ==
    /\ fields = Try(origin.inner).f
    /\ [how |-> pstate, ret |-> parsed, exc |-> pexc] = parse(origin.inner, now)

\* C22: for every JSON object J and every prefix and suffix text around it
\* (a markdown code fence included), parse() on the wrapped reply returns the
\* 4-tuple that parse() on J alone returns.
C22_ProseInsensitive == WrappedParsed => SameAsAlone

\* C23: the default provider client, the multi-provider client and the
\* vector index are process-wide singletons: over any sequence of requests
\* every request is given the instance created on first access, and no
\* instance is constructed after the first of its kind.
C23_Singletons ==
    /\ made.openai <= 1 /\ made.store <= 1 /\ made.router <= 1
    /\ \A r \in ChatRequests :
          /\ held[r].openai \in {0, 1}
          /\ held[r].store \in {0, 1}
          /\ held[r].router \in {0, 1}

\* The rows recorded for the k-th pair handled.
RowsOf(k) == log[k].first..(log[k].first + log[k].n - 1)

\* The summary of the k-th pair's model when the pair started, and when it
\* had been handled.
OwnStart(k) == log[k].start[models[log[k].m]]
OwnEnd(k) == log[k].end[models[log[k].m]]

FirstBreak(t) ==
    IF \E i \in 1..Len(t) : t[i] = "\n" THEN MinOf({i \in 1..Len(t) : t[i] = "\n"}) ELSE 0

RECURSIVE LinesOf(_)
\* t.split("\n")
LinesOf(t) ==
    IF FirstBreak(t) = 0 THEN <<t>>
    ELSE <<SubSeq(t, 1, FirstBreak(t) - 1)>> \o LinesOf(SubSeq(t, FirstBreak(t) + 1, Len(t)))

\* The context of the prompt the provider was called with: what follows the
\* instructions and the line "Context:".
PromptContext == SubSeq(acalls[2].system_prompt, 6, Len(acalls[2].system_prompt))

\* A Citation field as it is written in a header: nothing when it is None.
Written(field) == IF field = Null THEN <<>> ELSE field.s

\* The header line that names citation c as chunk i.
HeaderOf(i, c) ==
    <<"[Chunk ", IntStr(i), " | ">> \o Written(c.ticker) \o <<" | ">>
        \o Written(c.filing_type) \o <<" | ">> \o Written(c.period) \o <<"]">>

\* C25: the context of the prompt has one block per ranked chunk, in ranked
\* order: a header line with the 1-based ordinal, the ticker, the filing type
\* and the period, then the chunk text, then an empty line; the chunk named
\* "Chunk i" is the chunk of citations[i] and raw_context[i] (counted from 1)
\* of the response.
C25_ContextBlocks ==
    astate = "returned" =>
        /\ Len(aresponse.raw_context) = Len(ranked)
        /\ Len(aresponse.citations) = Len(ranked)
        /\ ranked = <<>> => PromptContext = <<>>
        /\ ranked # <<>> =>
              /\ Len(LinesOf(PromptContext)) = 3 * Len(ranked)
              /\ \A i \in 1..Len(ranked) :
                    /\ LinesOf(PromptContext)[3 * i - 2] = HeaderOf(i, aresponse.citations[i])
                    /\ LinesOf(PromptContext)[3 * i - 1] = <<aresponse.raw_context[i].text>>
                    /\ LinesOf(PromptContext)[3 * i] = <<>>
                    /\ aresponse.citations[i].chunk_id = ranked[i][1].chunk_id
                    /\ aresponse.raw_context[i].text = ranked[i][1].text
                    /\ aresponse.raw_context[i].metadata = ranked[i][1].metadata
                    /\ aresponse.raw_context[i].score = ranked[i][2]

\* C25 witness: two chunks are ranked, the nearer one without a filing type;
\* the prompt names it "Chunk 1" with an empty filing type and the response
\* cites it first.
C25_Witness ==
    /\ astate = "returned"
    /\ Len(ranked) = 2
    /\ ranked[1][1].chunk_id = 2
    /\ SubSeq(acalls[2].system_prompt, 6, 13)
          = <<"[Chunk ", "1", " | ", "AMZN", " | ", " | ", "Q2-2025", "]">>
    /\ aresponse.citations[1].chunk_id = 2
    /\ aresponse.raw_context[2].text = "t1"

RECURSIVE Total(_)
\* The sum of a sequence of numbers.
Total(ns) == IF ns = <<>> THEN 0 ELSE Head(ns) + Total(Tail(ns))

\* A usage value of a row as a number: None adds nothing.
Counted(v) == IF v.t = "int" THEN v.n ELSE 0

\* The rows of model m, as 1 for a row of m and 0 for any other row.
RowsOfModel(m) == [i \in 1..Len(results) |-> IF results[i].model = m THEN 1 ELSE 0]

\* C26: each ModelSummary returned is the exact aggregate of the rows of its
\* model: total_questions is the number of rows, correct the number of rows
\* with is_correct (so correct <= total_questions), the token and cost sums
\* are the sums of the rows' answer usage and the judge sums the sums of the
\* rows' judge usage, also with failed pairs and a model listed twice.
C26_ExactAggregate ==
    epc = "done" =>
        \A k \in 1..Len(summaries) :
            /\ summaries[k].total_questions = Total(RowsOfModel(summaries[k].model))
            /\ summaries[k].correct =
                  Total([i \in 1..Len(results) |->
                            IF results[i].is_correct
                            THEN RowsOfModel(summaries[k].model)[i] ELSE 0])
            /\ summaries[k].correct <= summaries[k].total_questions
            /\ summaries[k].total_input_tokens =
                  Total([i \in 1..Len(results) |->
                            RowsOfModel(summaries[k].model)[i] * Counted(results[i].input_tokens)])
            /\ summaries[k].total_output_tokens =
                  Total([i \in 1..Len(results) |->
                            RowsOfModel(summaries[k].model)[i] * Counted(results[i].output_tokens)])
            /\ summaries[k].total_cost =
                  Total([i \in 1..Len(results) |->
                            RowsOfModel(summaries[k].model)[i] * Counted(results[i].cost)])
            /\ summaries[k].judge_input_tokens =
                  Total([i \in 1..Len(results) |->
                            RowsOfModel(summaries[k].model)[i] * results[i].judge_input_tokens])
            /\ summaries[k].judge_output_tokens =
                  Total([i \in 1..Len(results) |->
                            RowsOfModel(summaries[k].model)[i] * results[i].judge_output_tokens])
            /\ summaries[k].judge_cost =
                  Total([i \in 1..Len(results) |->
                            RowsOfModel(summaries[k].model)[i] * results[i].judge_cost])

\* The k-th pair handled is the one whose judge call raised after the RAG
\* API had returned.
JudgeFailed(k) == log[k].api = "returned" /\ log[k].judge = "raised"

\* The loop stands at the pair after the k-th one.
AtNextPair(k) ==
    /\ qi = (k \div Len(models)) + 1
    /\ mi = (k % Len(models)) + 1

\* C27: when the RAG API call of a pair returns but judge_answer raises, the
\* pair is recorded as one row with is_correct = false, an actual_answer
\* that is the error text and not the model's answer, and zero answer and
\* judge usage; the batch goes on with the next pair and ends with every
\* pair handled.
C27_JudgeFailureIsolated ==
    /\ epc \in {"loop", "done"}
    /\ \A k \in 1..Len(log) :
        JudgeFailed(k) =>
            /\ log[k].n = 1
            /\ Len(log[k].judged) = 1
            /\ RowOf(k).model = models[log[k].m]
            /\ RowOf(k).question = log[k].q
            /\ RowOf(k).is_correct = FALSE
            /\ RowOf(k).actual_answer = <<"ERROR: ", "APIError">>
            /\ RowOf(k).actual_answer # AnswerOf(k).s
            /\ RowOf(k).input_tokens = IntV(0)
            /\ RowOf(k).output_tokens = IntV(0)
            /\ RowOf(k).cost = IntV(0)
            /\ RowOf(k).judge_input_tokens = 0
            /\ RowOf(k).judge_output_tokens = 0
            /\ RowOf(k).judge_cost = 0
            /\ k < Len(log) =>
                /\ log[k + 1].q = (k \div Len(models)) + 1
                /\ log[k + 1].m = (k % Len(models)) + 1
            /\ (k = Len(log) /\ epc = "loop") => AtNextPair(k)
    /\ epc = "done" => Len(log) = questions * Len(models)

\* C27 witness: the judge raises on the first pair, whose answer had used 5
\* input tokens, and the pair after it is judged correct and counted.
C27_Witness ==
    /\ epc = "done"
    /\ Len(log) >= 2
    /\ JudgeFailed(1)
    /\ log[1].reply.usage.input_tokens = IntV(5)
    /\ RowOf(1).input_tokens = IntV(0)
    /\ RowOf(1).actual_answer = <<"ERROR: ", "APIError">>
    /\ log[2].judge = "returned"
    /\ RowOf(2).is_correct = TRUE
    /\ RowOf(2).input_tokens = IntV(5)

\* The last row recorded for the k-th pair handled.
LastRowOf(k) == results[log[k].first + log[k].n - 1]

\* The k-th pair handled failed: its last row is the row of the except clause.
FailedPair(k) ==
    /\ log[k].n >= 1
    /\ Len(LastRowOf(k).actual_answer) >= 1
    /\ LastRowOf(k).actual_answer[1] = "ERROR: "

\* C28: handling a failed pair changes only total_questions, by +1, of the
\* pair's own ModelSummary: every other field of it is as it was before the
\* pair was started, and the summaries of the other models are unchanged.
C28_FailedPairFrame ==
    \A k \in 1..Len(log) :
        FailedPair(k) =>
            log[k].end = [log[k].start EXCEPT ![models[log[k].m]].total_questions = @ + 1]

====
